---- MODULE Spec2Model ----
(***************************************************************************)
(* Model of the auraed cell service: the Cells registry (cells/cells.rs)   *)
(* and the CellService handlers with the nested dispatch macro             *)
(* (cell_service.rs).                                                      *)
(*                                                                         *)
(* Spec         the Cells registry driven call by call (every public       *)
(*              method takes &mut self, so a call is one atomic step),     *)
(*              with the cgroup filesystem changing out-of-band.           *)
(* SpecService  the handlers of CellService run by concurrent tasks that   *)
(*              share the registry mutex and the Executables mutex;        *)
(*              do_in_cell is split at its await points (dial attempt +    *)
(*              sleep, RPC attempt + sleep).                               *)
(* SpecBackoff  one task running do_in_cell with the full randomisation    *)
(*              of the backoff delays, for the timing of the retry loops.  *)
(* SpecRoute    one request on its way down the cell hierarchy: each agent *)
(*              validates it and handles it or forwards it to the nested   *)
(*              agent of the head segment of its path.                     *)
(* SpecLive     the handlers of SpecService that take the registry mutex,  *)
(*              with fairness, for the release of the mutex.               *)
(* SpecIsolation  a nested agent from its start: the Isolation builder     *)
(*              (executables/auraed/isolation_controls.rs) is run, then    *)
(*              the agent serves registry calls.                           *)
(***************************************************************************)
EXTENDS Integers, FiniteSets, Sequences, TLC

\* ------------------------------------------------------------------ bounds
NumNames == 2
NumSpecs == 2
NumTasks == 2
NumExecs == 1
NumPayloads == 2

Names == 1..NumNames        \* CellName values
Specs == 1..NumSpecs        \* CellSpec values
Tasks == 1..NumTasks        \* concurrently served RPCs
ExecNames == 1..NumExecs    \* executable names
Payloads == 1..NumPayloads  \* what a request carries besides its cell path

\* ------------------------------------------------- constants of do_in_cell
InitialIntervalMs == 50
Multiplier == 10
RandomizationPct == 50
MaxIntervalMs == 3000
MaxElapsedMs == 20000

VARIABLES
    cache,      \* Cells.cache : CellName -> Cell (NoCell = no entry)
    cgroup,     \* the names whose cgroup directory exists on the filesystem
    last,       \* the last call made on the registry and the state before it
    prev,       \* the call before `last`, kept when it was a successful allocate
    lock,       \* holder of CellService.cells (tokio Mutex), 0 = unlocked
    pc,         \* per task: position inside its handler
    backoff,    \* per task: the retry_strategy of do_in_cell
    total,      \* per task: stopwatch, ms since its nested dispatch began
                \* (-1 = not running)
    result,     \* the last response the agent returned to a caller
    job,        \* per task: the name (and spec) its handler is working on
    attempt,    \* what the last dial or nested RPC attempt came back with
    won,        \* per name: the Allocates that succeeded since the last
                \* Free of the name, free_all or out-of-band cgroup change
    xlock,      \* holder of CellService.executables (tokio Mutex), 0 = unlocked
    execs,      \* Executables: the names of the executables being run
    route,      \* the request being routed: where it is and what the agent
                \* that served it last decided and did
    iso         \* the Isolation builder of a starting nested agent

vars == <<cache, cgroup, last, prev, lock, pc, backoff, total, result,
          job, attempt, won, xlock, execs, route, iso>>
regVars == <<cache, cgroup>>
histVars == <<last, prev, route>>
taskVars == <<lock, pc, backoff, total, result, job, attempt>>
execVars == <<xlock, execs>>
svcVars == <<taskVars, won, execVars>>

\* ------------------------------------------------------------------- Cell
NoCell == [state |-> "Absent", spec |-> 0]

\* Cell::new : a cell starts Unallocated
NewCell(spec) == [state |-> "Unallocated", spec |-> spec]

\* Cgroup::exists
CgroupExists(fs, n) == n \in fs

\* Cell::allocate : Unallocated -> Allocated, creating the cgroup; a failure
\* unwinds the cgroup it created and leaves the cell Unallocated.
CellAllocate(cell, n, fs, ok) ==
    IF cell.state # "Unallocated"
    THEN [cell |-> cell, fs |-> fs, res |-> "Ok"]
    ELSE IF ok
    THEN [cell |-> [cell EXCEPT !.state = "Allocated"],
          fs |-> fs \cup {n}, res |-> "Ok"]
    ELSE [cell |-> cell, fs |-> fs \ {n}, res |-> "AllocateFailed"]

\* Cell::free : Allocated -> Freed, destroying the cgroup; idempotent from
\* Freed; a cell that was never allocated reports CellNotAllocated.
CellFree(cell, n, fs, ok) ==
    CASE cell.state = "Allocated" ->
            IF ok
            THEN [cell |-> [cell EXCEPT !.state = "Freed"],
                  fs |-> fs \ {n}, res |-> "Ok"]
            ELSE [cell |-> cell, fs |-> fs, res |-> "FreeFailed"]
      [] cell.state = "Freed" -> [cell |-> cell, fs |-> fs, res |-> "Ok"]
      [] OTHER -> [cell |-> cell, fs |-> fs, res |-> "CellNotAllocated"]

\* Cell::kill : SIGKILL, cgroup destroyed unconditionally, errors swallowed
CellKill(cell, n, fs) ==
    [cell |-> [cell EXCEPT !.state = "Freed"],
     fs |-> IF cell.state = "Allocated" THEN fs \ {n} ELSE fs,
     res |-> "Ok"]

\* Cell::client_config : the endpoint, only in the Allocated state
CellClientConfig(cell) ==
    IF cell.state = "Allocated" THEN "Ok" ELSE "CellNotAllocated"

\* The closures handed to get / get_mut / do_broadcast.
GetClosures == {"client_config", "ok", "err", "not_allocated"}

Apply(f, cell, n, fs, ok) ==
    CASE f = "free" -> CellFree(cell, n, fs, ok)
      [] f = "kill" -> CellKill(cell, n, fs)
      [] f = "client_config" ->
            [cell |-> cell, fs |-> fs, res |-> CellClientConfig(cell)]
      [] f = "ok" -> [cell |-> cell, fs |-> fs, res |-> "Ok"]
      [] f = "not_allocated" ->
            [cell |-> cell, fs |-> fs, res |-> "CellNotAllocated"]
      [] OTHER -> [cell |-> cell, fs |-> fs, res |-> "OtherError"]

\* ------------------------------------------------------------------ Cells
Keys(c) == {n \in Names : c[n] # NoCell}

Remove(c, n) == [c EXCEPT ![n] = NoCell]

\* mutant: the stale entry is reported but not evicted
handle_cgroup_does_not_exist_NoEvict(c, fs, n) ==
    IF CgroupExists(fs, n)
    THEN [cache |-> c, res |-> "Ok"]
    ELSE IF c[n] = NoCell
    THEN [cache |-> c, res |-> "CellNotFound"]
    ELSE [cache |-> c, res |-> "CgroupNotFound"]

\* mutant: a missing cgroup is reported as CgroupNotFound whether or not
\* the name was cached
handle_cgroup_does_not_exist_NoNotFound(c, fs, n) ==
    IF CgroupExists(fs, n)
    THEN [cache |-> c, res |-> "Ok"]
    ELSE [cache |-> Remove(c, n), res |-> "CgroupNotFound"]

\* Cells::handle_cgroup_does_not_exist
handle_cgroup_does_not_exist(c, fs, n) ==
    IF CgroupExists(fs, n)
    THEN [cache |-> c, res |-> "Ok"]
    ELSE IF c[n] = NoCell
    THEN [cache |-> c, res |-> "CellNotFound"]
    ELSE [cache |-> Remove(c, n), res |-> "CgroupNotFound"]

\* mutant: the cgroup check is skipped when the name is cached, so a
\* duplicate allocate replaces the cached cell
Cells_allocate_Overwrite(c, fs, n, spec, ok) ==
    IF CgroupExists(fs, n) /\ c[n] = NoCell
    THEN [cache |-> c, fs |-> fs, called |-> FALSE, res |-> "CgroupIsNotACell"]
    ELSE LET inserted == [c EXCEPT ![n] = NewCell(spec)]
             r == CellAllocate(inserted[n], n, fs, ok)
         IN  [cache |-> [inserted EXCEPT ![n] = r.cell], fs |-> r.fs,
              called |-> TRUE,
              res |-> IF c[n] # NoCell /\ CgroupExists(fs, n)
                      THEN "CellExists" ELSE r.res]

\* mutant: every entry whose cgroup is gone is evicted, not only the
\* entry of the allocated name
Cells_allocate_EvictsAllStale(c, fs, n, spec, ok) ==
    IF CgroupExists(fs, n)
    THEN [cache |-> c, fs |-> fs, called |-> FALSE,
          res |-> IF c[n] # NoCell THEN "CellExists" ELSE "CgroupIsNotACell"]
    ELSE LET removed == [m \in Names |->
                            IF CgroupExists(fs, m) THEN c[m] ELSE NoCell]
             inserted == [removed EXCEPT ![n] = NewCell(spec)]
             r == CellAllocate(inserted[n], n, fs, ok)
         IN  [cache |-> [inserted EXCEPT ![n] = r.cell], fs |-> r.fs,
              called |-> TRUE, res |-> r.res]

\* mutant: a stale entry is not evicted, so or_insert_with keeps the old
\* cell and allocate is called on it
Cells_allocate_KeepsStale(c, fs, n, spec, ok) ==
    IF CgroupExists(fs, n)
    THEN [cache |-> c, fs |-> fs, called |-> FALSE,
          res |-> IF c[n] # NoCell THEN "CellExists" ELSE "CgroupIsNotACell"]
    ELSE LET inserted == IF c[n] = NoCell
                         THEN [c EXCEPT ![n] = NewCell(spec)] ELSE c
             r == CellAllocate(inserted[n], n, fs, ok)
         IN  [cache |-> [inserted EXCEPT ![n] = r.cell], fs |-> r.fs,
              called |-> TRUE, res |-> r.res]

\* Cells::allocate
Cells_allocate(c, fs, n, spec, ok) ==
    IF CgroupExists(fs, n)
    THEN [cache |-> c, fs |-> fs, called |-> FALSE,
          res |-> IF c[n] # NoCell THEN "CellExists" ELSE "CgroupIsNotACell"]
    ELSE LET removed == Remove(c, n)
             inserted == [removed EXCEPT ![n] = NewCell(spec)]
             r == CellAllocate(inserted[n], n, fs, ok)
         IN  [cache |-> [inserted EXCEPT ![n] = r.cell], fs |-> r.fs,
              called |-> TRUE, res |-> r.res]

\* Cells::allocate up to the call of cell.allocate(): the existence check,
\* the eviction of a stale entry and the insertion of the new cell
Cells_allocate_enter(c, fs, n, spec) ==
    IF CgroupExists(fs, n)
    THEN [cache |-> c, called |-> FALSE,
          res |-> IF c[n] # NoCell THEN "CellExists" ELSE "CgroupIsNotACell"]
    ELSE [cache |-> [Remove(c, n) EXCEPT ![n] = NewCell(spec)],
          called |-> TRUE, res |-> "Ok"]

\* Cells::allocate from the call of cell.allocate() on: the nested agent is
\* spawned and its outcome is the result
Cells_allocate_spawn(c, fs, n, ok) ==
    LET r == CellAllocate(c[n], n, fs, ok) IN
    [cache |-> [c EXCEPT ![n] = r.cell], fs |-> r.fs, res |-> r.res]

\* mutant: a missing entry behind an existing cgroup is reported as
\* CellNotFound
Cells_get_mut_NotFound(c, fs, n, f, ok) ==
    LET h == handle_cgroup_does_not_exist(c, fs, n) IN
    IF h.res # "Ok"
    THEN [cache |-> h.cache, fs |-> fs, called |-> FALSE, res |-> h.res]
    ELSE IF h.cache[n] = NoCell
    THEN [cache |-> h.cache, fs |-> fs, called |-> FALSE,
          res |-> "CellNotFound"]
    ELSE LET r == Apply(f, h.cache[n], n, fs, ok)
             c1 == [h.cache EXCEPT ![n] = r.cell]
         IN  [cache |-> IF r.res = "CellNotAllocated" THEN Remove(c1, n) ELSE c1,
              fs |-> r.fs, called |-> TRUE, res |-> r.res]

\* mutant: a cell that reports CellNotAllocated stays in the cache
Cells_get_mut_NoEvict(c, fs, n, f, ok) ==
    LET h == handle_cgroup_does_not_exist(c, fs, n) IN
    IF h.res # "Ok"
    THEN [cache |-> h.cache, fs |-> fs, called |-> FALSE, res |-> h.res]
    ELSE IF h.cache[n] = NoCell
    THEN [cache |-> h.cache, fs |-> fs, called |-> FALSE,
          res |-> "CgroupIsNotACell"]
    ELSE LET r == Apply(f, h.cache[n], n, fs, ok)
         IN  [cache |-> [h.cache EXCEPT ![n] = r.cell],
              fs |-> r.fs, called |-> TRUE, res |-> r.res]

\* Cells::get and Cells::get_mut (the same body; get's closure cannot
\* change the cell, which Apply respects for the closures of GetClosures)
Cells_get_mut(c, fs, n, f, ok) ==
    LET h == handle_cgroup_does_not_exist(c, fs, n) IN
    IF h.res # "Ok"
    THEN [cache |-> h.cache, fs |-> fs, called |-> FALSE, res |-> h.res]
    ELSE IF h.cache[n] = NoCell
    THEN [cache |-> h.cache, fs |-> fs, called |-> FALSE,
          res |-> "CgroupIsNotACell"]
    ELSE LET r == Apply(f, h.cache[n], n, fs, ok)
             c1 == [h.cache EXCEPT ![n] = r.cell]
         IN  [cache |-> IF r.res = "CellNotAllocated" THEN Remove(c1, n) ELSE c1,
              fs |-> r.fs, called |-> TRUE, res |-> r.res]

\* mutant: the read takes the entry out of the cache whatever f returns
Cells_get_Evicts(c, fs, n, f) ==
    LET r == Cells_get_mut(c, fs, n, f, TRUE) IN
    [r EXCEPT !.cache = Remove(r.cache, n)]

Cells_get(c, fs, n, f) == Cells_get_mut(c, fs, n, f, TRUE)

\* mutant: the freed cell is left in the cache
Cells_free_NoRemove(c, fs, n, ok) ==
    LET h == handle_cgroup_does_not_exist(c, fs, n) IN
    IF h.res # "Ok"
    THEN [cache |-> h.cache, fs |-> fs, called |-> FALSE, res |-> h.res]
    ELSE Cells_get_mut(h.cache, fs, n, "free", ok)

\* mutant: the entry is removed whatever Cell.free returned
Cells_free_RemovesOnError(c, fs, n, ok) ==
    LET h == handle_cgroup_does_not_exist(c, fs, n) IN
    IF h.res # "Ok"
    THEN [cache |-> h.cache, fs |-> fs, called |-> FALSE, res |-> h.res]
    ELSE LET g == Cells_get_mut(h.cache, fs, n, "free", ok) IN
         [g EXCEPT !.cache = Remove(g.cache, n)]

\* Cells::free
Cells_free(c, fs, n, ok) ==
    LET h == handle_cgroup_does_not_exist(c, fs, n) IN
    IF h.res # "Ok"
    THEN [cache |-> h.cache, fs |-> fs, called |-> FALSE, res |-> h.res]
    ELSE LET g == Cells_get_mut(h.cache, fs, n, "free", ok) IN
         IF g.res # "Ok" THEN g ELSE [g EXCEPT !.cache = Remove(g.cache, n)]

\* mutant: the broadcast stops at the first cell whose call fails
do_broadcast_StopsAtFailure(c, fs, f, fails) ==
    LET r(n) == Apply(f, c[n], n, fs, n \notin fails)
        stop(n) == \E m \in Keys(c) : m < n /\ r(m).res # "Ok"
    IN  [cache |-> [n \in Names |-> IF c[n] = NoCell \/ stop(n)
                                    THEN c[n] ELSE r(n).cell],
         fs |-> {m \in fs : (m \in Keys(c) /\ ~stop(m)) => m \in r(m).fs},
         names |-> {n \in Keys(c) : ~stop(n) /\ r(n).res = "Ok"}]

\* Cells::do_broadcast : f on every cell; the names of those that returned Ok
do_broadcast(c, fs, f, fails) ==
    LET r(n) == Apply(f, c[n], n, fs, n \notin fails) IN
    [cache |-> [n \in Names |-> IF c[n] = NoCell THEN NoCell ELSE r(n).cell],
     fs |-> {m \in fs : m \in Keys(c) => m \in r(m).fs},
     names |-> {n \in Keys(c) : r(n).res = "Ok"}]

RemoveAll(c, S) == [n \in Names |-> IF n \in S THEN NoCell ELSE c[n]]

\* Cells::broadcast_free
broadcast_free(c, fs, fails) ==
    LET b == do_broadcast(c, fs, "free", fails) IN
    [cache |-> RemoveAll(b.cache, b.names), fs |-> b.fs]

\* mutant: the killed cells are left in the cache
broadcast_kill_NoRemove(c, fs) ==
    LET b == do_broadcast(c, fs, "kill", {}) IN
    [cache |-> b.cache, fs |-> b.fs]

\* Cells::broadcast_kill
broadcast_kill(c, fs) ==
    LET b == do_broadcast(c, fs, "kill", {}) IN
    [cache |-> RemoveAll(b.cache, b.names), fs |-> b.fs]

\* ------------------------------------------------------------ Executables
\* Executables::start : a duplicate name is ExecutableExists, a command that
\* does not spawn is ExecutableSpawnFailed, otherwise the child is recorded
Executables_start(x, e, ok) ==
    IF e \in x
    THEN [execs |-> x, res |-> "ExecutableExists"]
    ELSE IF ok
    THEN [execs |-> x \cup {e}, res |-> "Ok"]
    ELSE [execs |-> x, res |-> "ExecutableSpawnFailed"]

\* Executables::stop : an unknown name is ExecutableNotFound, otherwise the
\* child is terminated, reaped and forgotten
Executables_stop(x, e) ==
    IF e \in x
    THEN [execs |-> x \ {e}, res |-> "Ok"]
    ELSE [execs |-> x, res |-> "ExecutableNotFound"]

\* ------------------------------------------------- registry, call by call
NoCall == [op |-> "none", name |-> 0, arg |-> 0, res |-> "none",
           called |-> FALSE, pre |-> [n \in Names |-> NoCell], prefs |-> {}]

Call(op, n, arg, r) ==
    [op |-> op, name |-> n, arg |-> arg, res |-> r.res, called |-> r.called,
     pre |-> cache, prefs |-> cgroup]

Record(c) ==
    /\ last' = c
    /\ prev' = IF last.op = "allocate" /\ last.res = "Ok" THEN last ELSE NoCall
    /\ UNCHANGED <<route, iso>>

\* cells.allocate(n, spec)
Allocate(n, spec, ok) ==
    LET r == Cells_allocate(cache, cgroup, n, spec, ok) IN
    /\ cache' = r.cache
    /\ cgroup' = r.fs
    /\ Record(Call("allocate", n, spec, r))
    /\ UNCHANGED svcVars

\* cells.free(n)
Free(n, ok) ==
    LET r == Cells_free(cache, cgroup, n, ok) IN
    /\ cache' = r.cache
    /\ cgroup' = r.fs
    /\ Record(Call("free", n, ok, r))
    /\ UNCHANGED svcVars

\* cells.get(n, f)
Get(n, f) ==
    LET r == Cells_get(cache, cgroup, n, f) IN
    /\ cache' = r.cache
    /\ cgroup' = r.fs
    /\ Record(Call("get", n, f, r))
    /\ UNCHANGED svcVars

\* CellService::free_all, the registry part: broadcast_free; broadcast_kill
free_all(c, fs, fails) ==
    LET f == broadcast_free(c, fs, fails) IN broadcast_kill(f.cache, f.fs)

FreeAll(fails) ==
    LET r == free_all(cache, cgroup, fails) IN
    /\ cache' = r.cache
    /\ cgroup' = r.fs
    /\ Record(Call("free_all", 0, fails, [res |-> "Ok", called |-> TRUE]))
    /\ UNCHANGED svcVars

\* the cgroup filesystem is shared with the rest of the host: a directory
\* appears or disappears without the registry taking part
ExternalMkdir(n) ==
    /\ n \notin cgroup
    /\ cgroup' = cgroup \cup {n}
    /\ UNCHANGED cache

ExternalRmdir(n) ==
    /\ n \in cgroup
    /\ cgroup' = cgroup \ {n}
    /\ UNCHANGED cache

Mkdir(n) ==
    /\ ExternalMkdir(n)
    /\ Record(Call("mkdir", n, 0, [res |-> "Ok", called |-> FALSE]))
    /\ UNCHANGED svcVars

Rmdir(n) ==
    /\ ExternalRmdir(n)
    /\ Record(Call("rmdir", n, 0, [res |-> "Ok", called |-> FALSE]))
    /\ UNCHANGED svcVars

NoBackoff == [interval |-> 0, elapsed |-> 0]
NoResult == [end |-> "none", code |-> "none", msg |-> "", retried |-> FALSE]
NoJob == [name |-> 0, spec |-> 0]
NoAttempt == [code |-> "none", msg |-> ""]

\* no request
NoReq == [method |-> "none", path |-> <<>>, body |-> "ok", fields |-> 0]

\* no response
NoReply == [code |-> "none", name |-> 0]

\* no request is being routed
NoRoute ==
    [orig |-> NoReq, rcvd |-> NoReq, hops |-> 0, at |-> "none",
     kind |-> "none", head |-> 0, rest |-> <<>>, fwd |-> NoReq,
     code |-> "none", effects |-> {}, prex |-> {}, reply |-> NoReply,
     up |-> 0, sent |-> <<>>]

\* no nested agent is starting
NoIso ==
    [name |-> 0,
     ctl |-> [isolate_process |-> FALSE, isolate_network |-> FALSE],
     pc |-> "none", calls |-> <<>>, res |-> "none"]

\* what Init and InitBackoff share: no handler is running
InitService ==
    /\ lock = 0
    /\ pc = [t \in Tasks |-> "idle"]
    /\ backoff = [t \in Tasks |-> NoBackoff]
    /\ total = [t \in Tasks |-> 0]
    /\ result = NoResult
    /\ job = [t \in Tasks |-> NoJob]
    /\ attempt = NoAttempt
    /\ won = [n \in Names |-> 0]
    /\ xlock = 0
    /\ execs = {}
    /\ route = NoRoute
    /\ iso = NoIso

Init ==
    /\ cache = [n \in Names |-> NoCell]
    /\ cgroup = {}
    /\ last = NoCall
    /\ prev = NoCall
    /\ InitService

Next ==
    \/ \E n \in Names, spec \in Specs, ok \in BOOLEAN : Allocate(n, spec, ok)
    \/ \E n \in Names, ok \in BOOLEAN : Free(n, ok)
    \/ \E n \in Names, f \in GetClosures : Get(n, f)
    \/ \E fails \in SUBSET Names : FreeAll(fails)
    \/ \E n \in Names : Mkdir(n)
    \/ \E n \in Names : Rmdir(n)

Spec == Init /\ [][Next]_vars

\* ------------------------------------------- the backoff of do_in_cell
\* retry_strategy is an ExponentialBackoff of the backoff crate, configured
\* by the builder calls of do_in_cell; the operators below follow the
\* crate's next_backoff, reset and future::retry. Attempts themselves are
\* taken to be instantaneous: only the sleeps advance the clock.
\* The random factor of one delay: 0, 1, 2 stand for the lowest, the nominal
\* and the highest value of the +/- RandomizationPct interval.
Rand == {0, 1, 2}
Nominal == {1}

\* ExponentialBackoffBuilder ... .build() : the clock of the strategy starts
BackoffNew == [interval |-> InitialIntervalMs, elapsed |-> 0]

\* backoff::future::retry(retry_strategy, ..) resets the strategy it is given
\* before the first attempt: the interval and the elapsed time start again
BackoffReset(b) == BackoffNew

\* the delay drawn from [interval - pct%, interval + pct%]
RandomizedInterval(interval, r) ==
    LET delta == (interval * RandomizationPct) \div 100
    IN  (interval - delta) + r * delta

\* the interval grows by the multiplier up to the max interval
IncrementInterval(interval) ==
    IF interval * Multiplier >= MaxIntervalMs
    THEN MaxIntervalMs
    ELSE interval * Multiplier

\* retry_strategy.next_backoff() : delay = -1 stands for None
NextBackoff(b, r) ==
    IF b.elapsed > MaxElapsedMs
    THEN [delay |-> -1, b |-> b]
    ELSE LET d == RandomizedInterval(b.interval, r)
             b1 == [b EXCEPT !.interval = IncrementInterval(b.interval)]
         IN  IF b.elapsed + d <= MaxElapsedMs
             THEN [delay |-> d, b |-> b1]
             ELSE [delay |-> -1, b |-> b1]

\* tokio::time::sleep(delay) : the clock of the strategy and the stopwatch
\* advance by the delay
Slept(b, d) == [b EXCEPT !.elapsed = b.elapsed + d]

Ticked(w, d) == IF w < 0 THEN w ELSE w + d

\* --------------------------------------------------- CellService handlers
Idle(t) == pc[t] = "idle" /\ lock = 0

\* the handler of task t returns r: the MutexGuard it holds is dropped
Return(t, r) ==
    /\ result' = r
    /\ pc' = [pc EXCEPT ![t] = "idle"]
    /\ lock' = 0
    /\ backoff' = [backoff EXCEPT ![t] = NoBackoff]
    /\ total' = [total EXCEPT ![t] = 0]
    /\ job' = [job EXCEPT ![t] = NoJob]

\* the response of the local handler `op`
Local(op, code) == [end |-> op, code |-> code, msg |-> "", retried |-> FALSE]

WonCap == 2

Won(w, n) == [w EXCEPT ![n] = IF @ < WonCap THEN @ + 1 ELSE @]

\* mutant: the handler works on the registry without taking the mutex
LocalAllocate_NoLock(t, n, spec) ==
    LET r == Cells_allocate_enter(cache, cgroup, n, spec) IN
    /\ pc[t] = "idle"
    /\ cache' = r.cache
    /\ IF r.res # "Ok"
       THEN /\ result' = Local("allocate", r.res)
            /\ UNCHANGED <<lock, pc, backoff, total, job>>
       ELSE /\ pc' = [pc EXCEPT ![t] = "spawn"]
            /\ job' = [job EXCEPT ![t] = [name |-> n, spec |-> spec]]
            /\ UNCHANGED <<lock, backoff, total, result>>
    /\ UNCHANGED <<cgroup, histVars, iso, attempt, won, execVars>>

\* CellService::allocate, from the lock to the call of cell.allocate():
\* self.cells.lock().await, then the part of cells.allocate that checks the
\* cgroup and inserts the cell (`?` returns its error and drops the guard)
LocalAllocate(t, n, spec) ==
    LET r == Cells_allocate_enter(cache, cgroup, n, spec) IN
    /\ Idle(t)
    /\ cache' = r.cache
    /\ IF r.res # "Ok"
       THEN Return(t, Local("allocate", r.res))
       ELSE /\ lock' = t
            /\ pc' = [pc EXCEPT ![t] = "spawn"]
            /\ job' = [job EXCEPT ![t] = [name |-> n, spec |-> spec]]
            /\ UNCHANGED <<backoff, total, result>>
    /\ UNCHANGED <<cgroup, histVars, iso, attempt, won, execVars>>

\* mutant: when cell.allocate() fails the guard is not dropped
LocalAllocateDone_KeepsLock(t, ok) ==
    LET n == job[t].name
        r == Cells_allocate_spawn(cache, cgroup, n, ok)
    IN  /\ pc[t] = "spawn"
        /\ cache' = r.cache
        /\ cgroup' = r.fs
        /\ won' = IF r.res = "Ok" THEN Won(won, n) ELSE won
        /\ result' = Local("allocate", r.res)
        /\ pc' = [pc EXCEPT ![t] = "idle"]
        /\ lock' = IF r.res = "Ok" THEN 0 ELSE lock
        /\ backoff' = [backoff EXCEPT ![t] = NoBackoff]
        /\ total' = [total EXCEPT ![t] = 0]
        /\ job' = [job EXCEPT ![t] = NoJob]
        /\ UNCHANGED <<histVars, iso, attempt, execVars>>

\* CellService::allocate, the rest: cell.allocate() spawns the nested agent
\* inside cells.allocate, the response is built and the guard is dropped
LocalAllocateDone(t, ok) ==
    LET n == job[t].name
        r == Cells_allocate_spawn(cache, cgroup, n, ok)
    IN  /\ pc[t] = "spawn"
        /\ cache' = r.cache
        /\ cgroup' = r.fs
        /\ won' = IF r.res = "Ok" THEN Won(won, n) ELSE won
        /\ Return(t, Local("allocate", r.res))
        /\ UNCHANGED <<histVars, iso, attempt, execVars>>

\* CellService::free : lock, cells.free
LocalFree(t, n, ok) ==
    LET r == Cells_free(cache, cgroup, n, ok) IN
    /\ Idle(t)
    /\ cache' = r.cache
    /\ cgroup' = r.fs
    /\ won' = [won EXCEPT ![n] = 0]
    /\ Return(t, Local("free", r.res))
    /\ UNCHANGED <<histVars, iso, attempt, execVars>>

\* mutant: the guard is dropped after broadcast_free
ServiceFreeAll_DropsLock(t, fails) ==
    LET r == broadcast_free(cache, cgroup, fails) IN
    /\ Idle(t)
    /\ cache' = r.cache
    /\ cgroup' = r.fs
    /\ won' = [n \in Names |-> 0]
    /\ lock' = 0
    /\ pc' = [pc EXCEPT ![t] = "kill"]
    /\ UNCHANGED <<backoff, total, result, job>>
    /\ UNCHANGED <<histVars, iso, attempt, execVars>>

\* CellService::free_all, first half: self.cells.lock().await and
\* cells.broadcast_free()
ServiceFreeAll(t, fails) ==
    LET r == broadcast_free(cache, cgroup, fails) IN
    /\ Idle(t)
    /\ cache' = r.cache
    /\ cgroup' = r.fs
    /\ won' = [n \in Names |-> 0]
    /\ lock' = t
    /\ pc' = [pc EXCEPT ![t] = "kill"]
    /\ UNCHANGED <<backoff, total, result, job>>
    /\ UNCHANGED <<histVars, iso, attempt, execVars>>

\* CellService::free_all, second half: cells.broadcast_kill() under the same
\* guard, then Ok(()) and the guard is dropped
ServiceFreeAllDone(t) ==
    LET r == broadcast_kill(cache, cgroup) IN
    /\ pc[t] = "kill"
    /\ cache' = r.cache
    /\ cgroup' = r.fs
    /\ won' = [n \in Names |-> 0]
    /\ Return(t, Local("free_all", "Ok"))
    /\ UNCHANGED <<histVars, iso, attempt, execVars>>

\* whether the retry strategy of task t has slept since it was (re)started
Retried(t) == backoff[t].elapsed > 0

\* the response of a nested dispatch that ended at `end`
Nested(t, end, code, msg) ==
    [end |-> end, code |-> code, msg |-> msg, retried |-> Retried(t)]

\* mutant: the error of the lookup is ignored and the dispatch goes on to
\* dial
DispatchBegin_DialsAnyway(t, n, watch) ==
    LET r == Cells_get(cache, cgroup, n, "client_config") IN
    /\ Idle(t)
    /\ cache' = r.cache
    /\ cgroup' = r.fs
    /\ attempt' = NoAttempt
    /\ lock' = t
    /\ pc' = [pc EXCEPT ![t] = "dial"]
    /\ backoff' = [backoff EXCEPT ![t] = BackoffNew]
    /\ total' = [total EXCEPT ![t] = IF watch THEN 0 ELSE -1]
    /\ job' = [job EXCEPT ![t] = [name |-> n, spec |-> 0]]
    /\ UNCHANGED result
    /\ UNCHANGED <<histVars, iso, won, execVars>>

\* do_in_cell, up to the first dial: lock the registry, read client_config
\* of the head cell (`?` returns the CellsError), build the retry strategy.
\* The guard `cells` is a local of the macro's block and lives to its end.
DispatchBegin(t, n, watch) ==
    LET r == Cells_get(cache, cgroup, n, "client_config") IN
    /\ Idle(t)
    /\ cache' = r.cache
    /\ cgroup' = r.fs
    /\ attempt' = NoAttempt
    /\ IF r.res # "Ok"
       THEN Return(t, Nested(t, "get_error", r.res, ""))
       ELSE /\ lock' = t
            /\ pc' = [pc EXCEPT ![t] = "dial"]
            /\ backoff' = [backoff EXCEPT ![t] = BackoffNew]
            /\ total' = [total EXCEPT ![t] = IF watch THEN 0 ELSE -1]
            /\ job' = [job EXCEPT ![t] = [name |-> n, spec |-> 0]]
            /\ UNCHANGED result
    /\ UNCHANGED <<histVars, iso, won, execVars>>

DialOutcomes == {"Ok", "ConnectionError", "OtherError"}

\* mutant: every dial error is retried
Dial_RetryAll(t, outcome, r) ==
    /\ pc[t] = "dial"
    /\ attempt' = [code |-> outcome, msg |-> ""]
    /\ IF outcome = "Ok"
       THEN /\ pc' = [pc EXCEPT ![t] = "rpc"]
            /\ backoff' = [backoff EXCEPT ![t] = BackoffReset(backoff[t])]
            /\ UNCHANGED <<lock, total, result, job>>
       ELSE LET nb == NextBackoff(backoff[t], r) IN
            IF nb.delay >= 0
            THEN /\ backoff' = [backoff EXCEPT ![t] = Slept(nb.b, nb.delay)]
                 /\ total' = [total EXCEPT ![t] = Ticked(total[t], nb.delay)]
                 /\ UNCHANGED <<lock, pc, result, job>>
            ELSE Return(t, Nested(t, "dial_exhausted", outcome, ""))
    /\ UNCHANGED <<regVars, histVars, iso, won, execVars>>

\* do_in_cell, one turn of the dial loop: AuraeClient::new, and after a
\* ConnectionError the sleep that next_backoff grants
Dial(t, outcome, r) ==
    /\ pc[t] = "dial"
    /\ attempt' = [code |-> outcome, msg |-> ""]
    /\ CASE outcome = "Ok" ->
              /\ pc' = [pc EXCEPT ![t] = "rpc"]
              /\ backoff' = [backoff EXCEPT ![t] = BackoffReset(backoff[t])]
              /\ UNCHANGED <<lock, total, result, job>>
         [] outcome = "ConnectionError" ->
              LET nb == NextBackoff(backoff[t], r) IN
              IF nb.delay >= 0
              THEN /\ backoff' = [backoff EXCEPT ![t] = Slept(nb.b, nb.delay)]
                   /\ total' = [total EXCEPT ![t] = Ticked(total[t], nb.delay)]
                   /\ UNCHANGED <<lock, pc, result, job>>
              ELSE Return(t, Nested(t, "dial_exhausted", "ConnectionError", ""))
         [] OTHER ->
              Return(t, Nested(t, "dial_error", outcome, ""))
    /\ UNCHANGED <<regVars, histVars, iso, won, execVars>>

\* what the nested agent answers to one attempt
Transient == [code |-> "Unknown", msg |-> "transport error"]
RpcOutcomes ==
    { [code |-> "Ok", msg |-> ""],
      Transient,
      [code |-> "Unknown", msg |-> "other"],
      [code |-> "NotFound", msg |-> "cell not found"] }

\* mutant: every error of code Unknown counts as transient
IsTransient_AnyUnknown(o) == o.code = "Unknown"

IsTransient(o) == o.code = "Unknown" /\ o.msg = "transport error"

\* do_in_cell, one attempt of backoff::future::retry: client.$function, and
\* after a transient error the sleep that next_backoff grants; when it
\* grants none the error of the last attempt is the result
Rpc(t, outcome, r) ==
    /\ pc[t] = "rpc"
    /\ attempt' = outcome
    /\ CASE outcome.code = "Ok" ->
              Return(t, Nested(t, "ok", "Ok", ""))
         [] IsTransient(outcome) ->
              LET nb == NextBackoff(backoff[t], r) IN
              IF nb.delay >= 0
              THEN /\ backoff' = [backoff EXCEPT ![t] = Slept(nb.b, nb.delay)]
                   /\ total' = [total EXCEPT ![t] = Ticked(total[t], nb.delay)]
                   /\ UNCHANGED <<lock, pc, result, job>>
              ELSE Return(t, Nested(t, "rpc_exhausted",
                                    outcome.code, outcome.msg))
         [] OTHER ->
              Return(t, Nested(t, "rpc_permanent", outcome.code, outcome.msg))
    /\ UNCHANGED <<regVars, histVars, iso, won, execVars>>

\* CellService::start : self.executables.lock().await, executables.start,
\* the pid of the child is the response
LocalStart(t, e, ok) ==
    LET r == Executables_start(execs, e, ok) IN
    /\ pc[t] = "idle"
    /\ xlock = 0
    /\ execs' = r.execs
    /\ result' = Local("start", r.res)
    /\ UNCHANGED <<regVars, histVars, iso, lock, pc, backoff, total, job,
                   attempt, won, xlock>>

\* mutant: the handler takes the registry mutex as well
LocalStop_BothLocks(t, e) ==
    /\ pc[t] = "idle"
    /\ xlock = 0
    /\ lock = 0
    /\ xlock' = t
    /\ lock' = t
    /\ pc' = [pc EXCEPT ![t] = "stop"]
    /\ job' = [job EXCEPT ![t] = [name |-> e, spec |-> 0]]
    /\ UNCHANGED <<regVars, histVars, iso, backoff, total, result, attempt, won,
                   execs>>

\* CellService::stop, up to the await: self.executables.lock().await and
\* the call of executables.stop, which waits for the child to exit
LocalStop(t, e) ==
    /\ pc[t] = "idle"
    /\ xlock = 0
    /\ xlock' = t
    /\ pc' = [pc EXCEPT ![t] = "stop"]
    /\ job' = [job EXCEPT ![t] = [name |-> e, spec |-> 0]]
    /\ UNCHANGED <<regVars, histVars, iso, lock, backoff, total, result, attempt,
                   won, execs>>

\* CellService::stop, the rest: executables.stop(..).await returns, the
\* response is built and the guard is dropped
LocalStopDone(t) ==
    LET r == Executables_stop(execs, job[t].name) IN
    /\ pc[t] = "stop"
    /\ execs' = r.execs
    /\ result' = Local("stop", r.res)
    /\ xlock' = 0
    /\ pc' = [pc EXCEPT ![t] = "idle"]
    /\ job' = [job EXCEPT ![t] = NoJob]
    /\ UNCHANGED <<regVars, histVars, iso, lock, backoff, total, attempt, won>>

FsMkdir(n) ==
    /\ ExternalMkdir(n)
    /\ won' = [won EXCEPT ![n] = 0]
    /\ UNCHANGED <<histVars, iso, taskVars, execVars>>

FsRmdir(n) ==
    /\ ExternalRmdir(n)
    /\ won' = [won EXCEPT ![n] = 0]
    /\ UNCHANGED <<histVars, iso, taskVars, execVars>>

NextService ==
    \/ \E t \in Tasks, n \in Names, spec \in Specs : LocalAllocate(t, n, spec)
    \/ \E t \in Tasks, ok \in BOOLEAN : LocalAllocateDone(t, ok)
    \/ \E t \in Tasks, n \in Names, ok \in BOOLEAN : LocalFree(t, n, ok)
    \/ \E t \in Tasks, fails \in SUBSET Names : ServiceFreeAll(t, fails)
    \/ \E t \in Tasks : ServiceFreeAllDone(t)
    \/ \E t \in Tasks, n \in Names : DispatchBegin(t, n, FALSE)
    \/ \E t \in Tasks, o \in DialOutcomes, r \in Nominal : Dial(t, o, r)
    \/ \E t \in Tasks, o \in RpcOutcomes, r \in Nominal : Rpc(t, o, r)
    \/ \E t \in Tasks, e \in ExecNames, ok \in BOOLEAN : LocalStart(t, e, ok)
    \/ \E t \in Tasks, e \in ExecNames : LocalStop(t, e)
    \/ \E t \in Tasks : LocalStopDone(t)
    \/ \E n \in Names : FsMkdir(n)
    \/ \E n \in Names : FsRmdir(n)

SpecService == Init /\ [][NextService]_vars

\* The handlers that take the registry mutex, with fairness: a handler that
\* holds the mutex takes its next step (the spawn, broadcast_kill, a dial
\* attempt and an attempt of the nested RPC each return), and a request
\* that waits for the mutex gets it when it is free again and again (the
\* tokio Mutex hands the lock to its waiters in order).
NextLive ==
    \/ \E t \in Tasks, n \in Names, spec \in Specs : LocalAllocate(t, n, spec)
    \/ \E t \in Tasks, ok \in BOOLEAN : LocalAllocateDone(t, ok)
    \/ \E t \in Tasks, n \in Names, ok \in BOOLEAN : LocalFree(t, n, ok)
    \/ \E t \in Tasks, fails \in SUBSET Names : ServiceFreeAll(t, fails)
    \/ \E t \in Tasks : ServiceFreeAllDone(t)
    \/ \E t \in Tasks, n \in Names : DispatchBegin(t, n, FALSE)
    \/ \E t \in Tasks, o \in DialOutcomes, r \in Nominal : Dial(t, o, r)
    \/ \E t \in Tasks, o \in RpcOutcomes, r \in Nominal : Rpc(t, o, r)

\* the next step of the handler of task t while it holds the mutex
Continue(t) ==
    \/ \E ok \in BOOLEAN : LocalAllocateDone(t, ok)
    \/ ServiceFreeAllDone(t)
    \/ \E o \in DialOutcomes, r \in Nominal : Dial(t, o, r)
    \/ \E o \in RpcOutcomes, r \in Nominal : Rpc(t, o, r)

\* task t, waiting with a free_all, is given the mutex
Acquire(t) == \E fails \in SUBSET Names : ServiceFreeAll(t, fails)

Fairness ==
    \A t \in Tasks : WF_vars(Continue(t)) /\ SF_vars(Acquire(t))

SpecLive == Init /\ [][NextLive]_vars /\ Fairness

\* One nested dispatch after another by one task, on a registry that holds
\* an allocated cell, with the stopwatch running and every random factor.
InitBackoff ==
    /\ cache = [n \in Names |-> IF n = 1
                                THEN [state |-> "Allocated", spec |-> 1]
                                ELSE NoCell]
    /\ cgroup = {1}
    /\ last = NoCall
    /\ prev = NoCall
    /\ InitService

NextBackoffSpec ==
    \/ \E n \in Names : DispatchBegin(1, n, TRUE)
    \/ \E o \in DialOutcomes, r \in Rand : Dial(1, o, r)
    \/ \E o \in RpcOutcomes, r \in Rand : Rpc(1, o, r)

SpecBackoff == InitBackoff /\ [][NextBackoffSpec]_vars

\* ------------------------------------------------------- cell name paths
\* A cell path on the wire is a string; its characters are the names of
\* Names (a CellName is one character long here), the separator and a
\* character no CellName may hold.
Sep == 0
Bad == -1
Chars == Names \cup {Sep, Bad}

MaxPathLen == 5

RECURSIVE Strings(_)
Strings(len) ==
    IF len = 0
    THEN {<<>>}
    ELSE LET shorter == Strings(len - 1)
         IN  shorter \cup {Append(w, c) :
                              w \in {v \in shorter : Len(v) = len - 1},
                              c \in Chars}

\* the wire strings: no two name characters side by side
WirePaths ==
    {w \in Strings(MaxPathLen) :
        \A i \in 1..(Len(w) - 1) : ~(w[i] \in Names /\ w[i + 1] \in Names)}

\* str::contains
Contains(w, c) == \E i \in 1..Len(w) : w[i] = c

\* the index of the first separator of w, 0 when it has none
FirstSep(w) ==
    IF Contains(w, Sep)
    THEN CHOOSE i \in 1..Len(w) :
            w[i] = Sep /\ \A j \in 1..(i - 1) : w[j] # Sep
    ELSE 0

\* str::split(SEPARATOR)
RECURSIVE Split(_)
Split(w) ==
    LET i == FirstSep(w) IN
    IF i = 0
    THEN <<w>>
    ELSE <<SubSeq(w, 1, i - 1)>> \o Split(SubSeq(w, i + 1, Len(w)))

\* CellName::validate : non-empty, allowed characters only
CellNameValid(seg) == Len(seg) = 1 /\ seg[1] \in Names

\* CellNamePath::validate : the empty string is CellNamePath::Empty, any
\* other string must split into valid CellNames; the path is the sequence
\* of its names
CellNamePathValidate(w) ==
    IF w = <<>>
    THEN [ok |-> TRUE, path |-> <<>>]
    ELSE LET segs == Split(w) IN
         IF \A i \in 1..Len(segs) : CellNameValid(segs[i])
         THEN [ok |-> TRUE, path |-> [i \in 1..Len(segs) |-> segs[i][1]]]
         ELSE [ok |-> FALSE, path |-> <<>>]

\* CellNamePath::into_child : the head name and the rest of the path
into_child(path) == [head |-> Head(path), rest |-> Tail(path)]

\* CellNamePath::into_string : the names joined by the separator
RECURSIVE into_string(_)
into_string(path) ==
    IF path = <<>>
    THEN <<>>
    ELSE IF Len(path) = 1
    THEN <<path[1]>>
    ELSE <<path[1], Sep>> \o into_string(Tail(path))

\* --------------------------------------------------------------- requests
\* A request: its method, its cell path as sent, whether the rest of it
\* validates (body: "ok" = it does, "bad" = one field does not, "missing" =
\* the `cell` of an Allocate is None), and the values of the rest (fields:
\* cpu, cpuset and the isolation flags of an Allocate, the executable of a
\* Start, the executable_name of a Stop; 0 = the request has none).
Methods == {"allocate", "free", "start", "stop"}

Bodies(m) ==
    CASE m = "allocate" -> {"ok", "bad", "missing"}
      [] m = "free" -> {"ok"}
      [] OTHER -> {"ok", "bad"}

Requests ==
    {[method |-> m, path |-> w, body |-> b, fields |-> f] :
        m \in Methods, w \in WirePaths, b \in {"ok", "bad", "missing"},
        f \in Payloads \cup {0}}

WireRequests ==
    {q \in Requests :
        /\ q.body \in Bodies(q.method)
        /\ q.fields = 0 <=> (q.method = "free" \/ q.body = "missing")}

\* validate_cell / CellValidator::validate_name and
\* CellServiceFreeRequestValidator::validate_cell_name : the path must parse
\* and must not be Empty
ValidName(w) ==
    LET v == CellNamePathValidate(w) IN v.ok /\ v.path # <<>>

\* mutant: an Allocate is accepted without looking at its `cell`
Valid_AllocateWithoutCell(q) ==
    CASE q.method = "allocate" -> ValidName(q.path)
      [] q.method = "free" -> ValidName(q.path)
      [] OTHER -> q.body = "ok" /\ CellNamePathValidate(q.path).ok

\* Validated*Request::validate
Valid(q) ==
    CASE q.method = "allocate" -> q.body = "ok" /\ ValidName(q.path)
      [] q.method = "free" -> ValidName(q.path)
      [] OTHER -> q.body = "ok" /\ CellNamePathValidate(q.path).ok

\* ----------------------------------------------------------------- router
\* what the server-side handler decides for a request
Rejected == [kind |-> "invalid", head |-> 0, rest |-> <<>>, fwd |-> NoReq]

\* the local handler is called with the validated request
ToLocal(path) ==
    IF path = <<>>
    THEN [kind |-> "local", head |-> 0, rest |-> <<>>, fwd |-> NoReq]
    ELSE [kind |-> "local", head |-> into_child(path).head,
          rest |-> into_child(path).rest, fwd |-> NoReq]

\* mutant: the request is forwarded with the path it came with
ToNested_KeepsPath(q, path) ==
    LET c == into_child(path) IN
    [kind |-> "nested", head |-> c.head, rest |-> c.rest, fwd |-> q]

\* mutant: the forwarded request is built anew, with default values
ToNested_DefaultFields(q, path) ==
    LET c == into_child(path) IN
    [kind |-> "nested", head |-> c.head, rest |-> c.rest,
     fwd |-> [method |-> q.method, path |-> into_string(c.rest),
              body |-> q.body, fields |-> IF q.fields = 0 THEN 0 ELSE 1]]

\* *_in_cell is called with the head cell and the request whose path has
\* been rewritten to into_string of the rest
ToNested(q, path) ==
    LET c == into_child(path) IN
    [kind |-> "nested", head |-> c.head, rest |-> c.rest,
     fwd |-> [q EXCEPT !.path = into_string(c.rest)]]

\* mutant: the nested branch forwards the path without taking the head off
RouteAllocate_NoStrip(q) ==
    IF q.body # "missing" /\ ~Contains(q.path, Sep)
    THEN IF ~Valid(q)
         THEN Rejected
         ELSE ToLocal(CellNamePathValidate(q.path).path)
    ELSE IF ~Valid(q)
         THEN Rejected
         ELSE ToNested_KeepsPath(q, CellNamePathValidate(q.path).path)

\* CellService (server trait) allocate
RouteAllocate(q) ==
    IF q.body # "missing" /\ ~Contains(q.path, Sep)
    THEN IF ~Valid(q)
         THEN Rejected
         ELSE ToLocal(CellNamePathValidate(q.path).path)
    ELSE IF ~Valid(q)
         THEN Rejected
         ELSE ToNested(q, CellNamePathValidate(q.path).path)

\* mutant: a path of several segments is handled locally as well
RouteFree_AlwaysLocal(q) ==
    IF ~Valid(q)
    THEN Rejected
    ELSE ToLocal(CellNamePathValidate(q.path).path)

\* CellService (server trait) free
RouteFree(q) ==
    IF ~Contains(q.path, Sep)
    THEN IF ~Valid(q)
         THEN Rejected
         ELSE ToLocal(CellNamePathValidate(q.path).path)
    ELSE IF ~Valid(q)
         THEN Rejected
         ELSE ToNested(q, CellNamePathValidate(q.path).path)

\* mutant: Start decides like Allocate, on the absence of a separator
RouteStart_LocalNoSeparator(q) ==
    IF ~Contains(q.path, Sep)
    THEN IF ~Valid(q)
         THEN Rejected
         ELSE ToLocal(CellNamePathValidate(q.path).path)
    ELSE IF ~Valid(q)
         THEN Rejected
         ELSE ToNested(q, CellNamePathValidate(q.path).path)

\* mutant: the local branch skips the validation
RouteStart_LocalUnvalidated(q) ==
    IF q.path = <<>>
    THEN ToLocal(<<>>)
    ELSE IF ~Valid(q)
         THEN Rejected
         ELSE ToNested(q, CellNamePathValidate(q.path).path)

\* CellService (server trait) start
RouteStart(q) ==
    IF q.path = <<>>
    THEN IF ~Valid(q)
         THEN Rejected
         ELSE ToLocal(CellNamePathValidate(q.path).path)
    ELSE IF ~Valid(q)
         THEN Rejected
         ELSE ToNested(q, CellNamePathValidate(q.path).path)

\* mutant: a single-segment path is executed by the receiving agent
RouteStop_LocalAtHead(q) ==
    IF ~Contains(q.path, Sep)
    THEN IF ~Valid(q) THEN Rejected ELSE ToLocal(<<>>)
    ELSE IF ~Valid(q)
         THEN Rejected
         ELSE ToNested(q, CellNamePathValidate(q.path).path)

\* CellService (server trait) stop
RouteStop(q) ==
    IF q.path = <<>>
    THEN IF ~Valid(q)
         THEN Rejected
         ELSE ToLocal(CellNamePathValidate(q.path).path)
    ELSE IF ~Valid(q)
         THEN Rejected
         ELSE ToNested(q, CellNamePathValidate(q.path).path)

\* the local handler panics on the request it is given: allocate and free
\* at expect("not empty") or at the assert that the rest of the path is
\* Empty, start and stop at the assert that the path is Empty
LocalHandlerPanics(m, d) ==
    IF m \in {"allocate", "free"}
    THEN d.head = 0 \/ d.rest # <<>>
    ELSE d.head # 0

\* the nested branch panics: expect("CellNamePath was not empty") on an
\* Empty validated path, unreachable! on an Allocate without `cell`
NestedBranchPanics(q, path) ==
    \/ path = <<>>
    \/ q.method = "allocate" /\ q.body = "missing"

Route(q) ==
    CASE q.method = "allocate" -> RouteAllocate(q)
      [] q.method = "free" -> RouteFree(q)
      [] q.method = "start" -> RouteStart(q)
      [] OTHER -> RouteStop(q)

\* the executable every Start and Stop of this specification names
TheExec == 1

\* the local handler of the method on the state (c, fs, x) of the agent
LocalCall(m, d, c, fs, x, ok) ==
    CASE m = "allocate" ->
            LET r == Cells_allocate(c, fs, d.head, 1, ok)
            IN  [cache |-> r.cache, fs |-> r.fs, execs |-> x, res |-> r.res,
                 effects |-> {"cells_lock"}]
      [] m = "free" ->
            LET r == Cells_free(c, fs, d.head, ok)
            IN  [cache |-> r.cache, fs |-> r.fs, execs |-> x, res |-> r.res,
                 effects |-> {"cells_lock"}]
      [] m = "start" ->
            LET r == Executables_start(x, TheExec, ok)
            IN  [cache |-> c, fs |-> fs, execs |-> r.execs, res |-> r.res,
                 effects |-> {"executables_lock"}]
      [] OTHER ->
            LET r == Executables_stop(x, TheExec)
            IN  [cache |-> c, fs |-> fs, execs |-> r.execs, res |-> r.res,
                 effects |-> {"executables_lock"}]

\* the response of the agent that ends the request: the status, and for a
\* successful local Allocate the name of the allocated cell
LocalResponse(m, d, code) ==
    [code |-> code,
     name |-> IF d.kind = "local" /\ m = "allocate" /\ code = "Ok"
              THEN d.head ELSE 0]

\* mutant: the routing agent answers with a response of its own, without
\* the cell name
Propagate_DropsName(reply) == [reply EXCEPT !.name = 0]

\* what a routing agent returns to its caller: the result of *_in_cell
Propagate(reply) == reply

MaxHops == 4
MaxTries == 2

\* the requests the attempts of one nested RPC send: each attempt sends a
\* clone of the request *_in_cell was given
Attempts(req, tries) == [i \in 1..tries |-> req]

\* the agent the request has arrived at serves it: the server-side handler
\* validates and decides, then the local handler or do_in_cell runs. The
\* nested dispatch is one step here: the head cell is looked up, and the
\* nested agent is reached (`delivered`), after some attempts of the RPC, or
\* it is not.
Serve(ok, delivered) ==
    LET q == route.rcvd
        d == Route(q)
        done(code, eff) ==
            [route EXCEPT !.at = "done", !.kind = d.kind, !.head = d.head,
                          !.rest = d.rest, !.fwd = NoReq, !.code = code,
                          !.effects = eff, !.prex = execs,
                          !.reply = LocalResponse(q.method, d, code),
                          !.sent = <<>>]
    IN  /\ route.at = "arrived"
        /\ last' = Call(q.method, d.head, 0, [res |-> "Ok", called |-> TRUE])
        /\ CASE d.kind = "invalid" ->
                  /\ route' = done("InvalidArgument", {})
                  /\ UNCHANGED <<regVars, execs>>
             [] d.kind = "local" ->
                  LET r == LocalCall(q.method, d, cache, cgroup, execs, ok) IN
                  /\ cache' = r.cache
                  /\ cgroup' = r.fs
                  /\ execs' = r.execs
                  /\ route' = done(r.res, r.effects)
             [] OTHER ->
                  LET g == Cells_get(cache, cgroup, d.head, "client_config") IN
                  /\ cache' = g.cache
                  /\ cgroup' = g.fs
                  /\ UNCHANGED execs
                  /\ IF g.res # "Ok"
                     THEN route' = done(g.res, {"cells_lock"})
                     ELSE IF ~delivered
                     THEN route' = done("Undelivered", {"cells_lock", "dial"})
                     ELSE \E tries \in 1..MaxTries : route' =
                            [route EXCEPT !.at = "forwarded", !.kind = d.kind,
                                          !.head = d.head, !.rest = d.rest,
                                          !.fwd = d.fwd, !.code = "none",
                                          !.effects =
                                              {"cells_lock", "dial", "rpc"},
                                          !.prex = execs,
                                          !.sent = Attempts(d.fwd, tries)]
        /\ UNCHANGED <<prev, taskVars, won, xlock, iso>>

\* the registries an agent may hold when a request reaches it: every name is
\* unknown or an allocated cell, and the cgroup filesystem agrees with the
\* registry or not (a cgroup removed behind the agent's back leaves a stale
\* entry, a directory made by someone else is a foreign cgroup)
RegistryDraws ==
    {[cache |-> [n \in Names |-> IF n \in S
                                 THEN [state |-> "Allocated", spec |-> 1]
                                 ELSE NoCell],
      fs |-> F] : S \in SUBSET Names, F \in SUBSET Names}

\* the forwarded request reaches the nested agent of the head cell, which
\* has a registry and an Executables table of its own
Enter(reg, x) ==
    /\ route.at = "forwarded"
    /\ route.hops < MaxHops
    /\ cache' = reg.cache
    /\ cgroup' = reg.fs
    /\ execs' = x
    /\ route' = [route EXCEPT !.at = "arrived", !.rcvd = route.fwd,
                              !.hops = route.hops + 1, !.kind = "none",
                              !.head = 0, !.rest = <<>>, !.fwd = NoReq,
                              !.code = "none", !.effects = {}, !.prex = {},
                              !.sent = <<>>]
    /\ UNCHANGED <<last, prev, taskVars, won, xlock, iso>>

\* the response travels one agent up: the routing agent above returns what
\* its *_in_cell call returned. The registry in the state stays that of the
\* agent that ended the request; routing agents touch nothing on the way up.
Respond ==
    /\ route.at \in {"done", "replying"}
    /\ route.up < route.hops
    /\ route' = [route EXCEPT !.reply = Propagate(route.reply),
                              !.up = route.up + 1,
                              !.at = IF route.up + 1 = route.hops
                                     THEN "replied" ELSE "replying"]
    /\ UNCHANGED <<regVars, execs, last, prev, taskVars, won, xlock, iso>>

\* a request arrives at an agent
InitRoute ==
    /\ \E reg \in RegistryDraws : cache = reg.cache /\ cgroup = reg.fs
    /\ last = NoCall
    /\ prev = NoCall
    /\ lock = 0
    /\ pc = [t \in Tasks |-> "idle"]
    /\ backoff = [t \in Tasks |-> NoBackoff]
    /\ total = [t \in Tasks |-> 0]
    /\ result = NoResult
    /\ job = [t \in Tasks |-> NoJob]
    /\ attempt = NoAttempt
    /\ won = [n \in Names |-> 0]
    /\ xlock = 0
    /\ execs \in SUBSET ExecNames
    /\ \E q \in WireRequests :
          route = [NoRoute EXCEPT !.orig = q, !.rcvd = q, !.at = "arrived"]
    /\ iso = NoIso

NextRoute ==
    \/ \E ok \in BOOLEAN, delivered \in BOOLEAN : Serve(ok, delivered)
    \/ \E reg \in RegistryDraws, x \in SUBSET ExecNames : Enter(reg, x)
    \/ Respond

SpecRoute == InitRoute /\ [][NextRoute]_vars

\* ------------------------------------------------ the Isolation builder
\* A nested agent starts with an Isolation built from the cell's name and
\* the IsolationControls of the cell. iso.calls is the log of the system
\* calls the builder has made, each with its arguments and whether it
\* succeeded.
Ctls == [isolate_process : BOOLEAN, isolate_network : BOOLEAN]

\* a system call: mount(2) of / or of /proc (arg 0), sethostname(2) or
\* setdomainname(2) (arg = the name passed)
Sys(call, arg, ok) == [call |-> call, arg |-> arg, ok |-> ok]

\* mutant: the root is rebound whatever the flag says
Isolation_setup_IgnoresFlag(calls, ctl, ok) ==
    [calls |-> Append(calls, Sys("mount_root_private", 0, ok)),
     res |-> IF ok THEN "Ok" ELSE "IoError"]

\* Isolation::setup : mount("/", "/", MS_PRIVATE | MS_REC) when
\* isolate_process is set
Isolation_setup(calls, ctl, ok) ==
    IF ~ctl.isolate_process
    THEN [calls |-> calls, res |-> "Ok"]
    ELSE [calls |-> Append(calls, Sys("mount_root_private", 0, ok)),
          res |-> IF ok THEN "Ok" ELSE "IoError"]

\* the system call of isolate_process that fails, if any
ProcessFailures == {"none", "mount_proc", "sethostname", "setdomainname"}

\* mutant: a failing sethostname is ignored and the domain name is set
Isolation_isolate_process_GoesOn(calls, name, ctl, fail) ==
    IF ~ctl.isolate_process
    THEN [calls |-> calls, res |-> "Ok"]
    ELSE LET c1 == Append(calls, Sys("mount_proc", 0, fail # "mount_proc"))
             c2 == Append(c1, Sys("sethostname", name, fail # "sethostname"))
             c3 == Append(c2, Sys("setdomainname", name,
                                  fail # "setdomainname"))
         IN  IF fail = "mount_proc" THEN [calls |-> c1, res |-> "IoError"]
             ELSE IF fail = "setdomainname"
             THEN [calls |-> c3, res |-> "IoError"]
             ELSE [calls |-> c3, res |-> "Ok"]

\* Isolation::isolate_process : mount of proc at /proc, sethostname and
\* setdomainname with the name of the Isolation; the first call that fails
\* ends it with its error
Isolation_isolate_process(calls, name, ctl, fail) ==
    IF ~ctl.isolate_process
    THEN [calls |-> calls, res |-> "Ok"]
    ELSE LET c1 == Append(calls, Sys("mount_proc", 0, fail # "mount_proc"))
             c2 == Append(c1, Sys("sethostname", name, fail # "sethostname"))
             c3 == Append(c2, Sys("setdomainname", name,
                                  fail # "setdomainname"))
         IN  IF fail = "mount_proc" THEN [calls |-> c1, res |-> "IoError"]
             ELSE IF fail = "sethostname"
             THEN [calls |-> c2, res |-> "IoError"]
             ELSE IF fail = "setdomainname"
             THEN [calls |-> c3, res |-> "IoError"]
             ELSE [calls |-> c3, res |-> "Ok"]

\* Isolation::isolate_network : a log line when the flag is set, nothing
\* else
Isolation_isolate_network(calls, ctl) ==
    IF ~ctl.isolate_network
    THEN [calls |-> calls, res |-> "Ok"]
    ELSE [calls |-> calls, res |-> "Ok"]

\* the starting agent goes on after a call of the builder that returned
\* Ok and gives up after one that failed
IsoStep(r, next) ==
    /\ iso' = [iso EXCEPT !.calls = r.calls, !.res = r.res,
                          !.pc = IF r.res = "Ok" THEN next ELSE "failed"]
    /\ UNCHANGED <<regVars, histVars, svcVars>>

Setup(ok) ==
    /\ iso.pc = "new"
    /\ IsoStep(Isolation_setup(iso.calls, iso.ctl, ok), "setup")

IsolateProcess(fail) ==
    /\ iso.pc = "setup"
    /\ IsoStep(Isolation_isolate_process(iso.calls, iso.name, iso.ctl, fail),
               "process")

IsolateNetwork ==
    /\ iso.pc = "process"
    /\ IsoStep(Isolation_isolate_network(iso.calls, iso.ctl), "serving")

\* the isolated agent serves a call on its registry
ServeRpc ==
    /\ iso.pc = "serving"
    /\ \/ \E n \in Names, spec \in Specs, ok \in BOOLEAN : Allocate(n, spec, ok)
       \/ \E n \in Names, ok \in BOOLEAN : Free(n, ok)

\* Isolation::new(name) in a nested agent that has just been spawned: its
\* registry is empty
InitIsolation ==
    /\ cache = [n \in Names |-> NoCell]
    /\ cgroup = {}
    /\ last = NoCall
    /\ prev = NoCall
    /\ lock = 0
    /\ pc = [t \in Tasks |-> "idle"]
    /\ backoff = [t \in Tasks |-> NoBackoff]
    /\ total = [t \in Tasks |-> 0]
    /\ result = NoResult
    /\ job = [t \in Tasks |-> NoJob]
    /\ attempt = NoAttempt
    /\ won = [n \in Names |-> 0]
    /\ xlock = 0
    /\ execs = {}
    /\ route = NoRoute
    /\ \E n \in Names, c \in Ctls :
          iso = [NoIso EXCEPT !.name = n, !.ctl = c, !.pc = "new"]

NextIsolation ==
    \/ \E ok \in BOOLEAN : Setup(ok)
    \/ \E fail \in ProcessFailures : IsolateProcess(fail)
    \/ IsolateNetwork
    \/ ServeRpc

SpecIsolation == InitIsolation /\ [][NextIsolation]_vars

\* ------------------------------------------------------------------ claims
InFlight(t) == pc[t] \in {"dial", "rpc"}

\* C1: during a nested dispatch the registry mutex is held only while
\* client_config of the head cell is read; the dial attempts, the backoff
\* sleeps and the nested RPC run with the mutex released, so that a local
\* Allocate or Free of another task can complete meanwhile.
C1_DialAndRpcOutsideLock ==
    \A t \in Tasks : InFlight(t) => lock # t

\* C4: one budget of MaxElapsedMs covers the dial retries and the RPC
\* retries together: a nested dispatch is never still retrying later than
\* MaxElapsedMs after it began.
C4_DispatchWithinOneBudget ==
    \A t \in Tasks : InFlight(t) => total[t] <= MaxElapsedMs

\* C5: when the retry budget runs out while the nested RPC keeps failing
\* with the transient error, the caller receives code Unavailable, never
\* the transient error's own code.
C5_ExhaustedSurfacesUnavailable ==
    result.end = "rpc_exhausted" => result.code = "Unavailable"

OtherEntriesOf(c, n) == [m \in Names \ {n} |-> c[m]]

\* C2 (I1): every key of the registry maps to a Cell whose allocate()
\* succeeded at some prior moment, also after an Allocate whose
\* Cell.allocate step failed.
C2_RegistryHoldsOnlyAllocated ==
    \A n \in Keys(cache) : cache[n].state \in {"Allocated", "Freed"}

C6_RoundTripCase ==
    /\ last.op = "free" /\ last.res = "Ok"
    /\ prev.op = "allocate" /\ prev.res = "Ok"
    /\ prev.name = last.name
    /\ prev.pre[prev.name] = NoCell
    /\ prev.name \notin prev.prefs

C6_AllocateFreeRoundTrip ==
    C6_RoundTripCase => cache = prev.pre /\ last.name \notin cgroup

C6_Witness ==
    C6_RoundTripCase /\ Keys(cache) # {}

\* C7: Cells.allocate(n, spec) for a name whose cgroup exists and that is a
\* key of the registry fails with CellExists and changes nothing.
C7_DuplicateCase ==
    /\ last.op = "allocate"
    /\ last.name \in last.prefs
    /\ last.pre[last.name] # NoCell

C7_DuplicateAllocateIsCellExists ==
    C7_DuplicateCase =>
        /\ last.res = "CellExists"
        /\ ~last.called
        /\ cache = last.pre
        /\ cgroup = last.prefs

C7_Witness ==
    /\ C7_DuplicateCase
    /\ last.pre[last.name].state = "Allocated"
    /\ last.arg # last.pre[last.name].spec

\* C8 (I3): when the cgroup for n exists and the registry has no entry for
\* n, allocate, free and get each fail with CgroupIsNotACell, call neither f
\* nor a Cell operation, and leave the registry and the cgroup unchanged.
C8_ForeignCase ==
    /\ last.op \in {"allocate", "free", "get"}
    /\ last.name \in last.prefs
    /\ last.pre[last.name] = NoCell

C8_ForeignCgroupIsNotACell ==
    C8_ForeignCase =>
        /\ last.res = "CgroupIsNotACell"
        /\ ~last.called
        /\ cache = last.pre
        /\ cgroup = last.prefs

C8_Witness ==
    C8_ForeignCase /\ last.op = "free" /\ Keys(cache) # {}

\* C9: for a name with neither a registry entry nor a cgroup, free and get
\* fail with CellNotFound, f is not applied and the registry is not mutated.
C9_UnknownCase ==
    /\ last.op \in {"free", "get"}
    /\ last.name \notin last.prefs
    /\ last.pre[last.name] = NoCell

C9_UnknownNameIsCellNotFound ==
    C9_UnknownCase =>
        /\ last.res = "CellNotFound"
        /\ ~last.called
        /\ cache = last.pre
        /\ cgroup = last.prefs

C9_Witness ==
    C9_UnknownCase /\ last.op = "get" /\ Keys(cache) # {}

\* C10 (I2): when the registry has an entry for n but the cgroup for n does
\* not exist, get and free return CgroupNotFound without applying f or
\* Cell.free, and the entry for n is evicted when the call returns.
C10_StaleCase ==
    /\ last.op \in {"free", "get"}
    /\ last.name \notin last.prefs
    /\ last.pre[last.name] # NoCell

C10_StaleEntryIsEvicted ==
    C10_StaleCase =>
        /\ last.res = "CgroupNotFound"
        /\ ~last.called
        /\ cache[last.name] = NoCell
        /\ OtherEntriesOf(cache, last.name) = OtherEntriesOf(last.pre, last.name)

C10_Witness ==
    /\ C10_StaleCase
    /\ last.op = "get"
    /\ last.pre[last.name].state = "Allocated"

\* C11 as stated: among the Allocates of one name with no Free of it and no
\* out-of-band cgroup change in between, at most one succeeds and every
\* other one returns CellExists.
C11_EveryOtherAllocateIsCellExists ==
    /\ \A n \in Names : won[n] <= 1
    /\ result.end = "allocate" => result.code \in {"Ok", "CellExists"}

\* C11, amended: among the Allocates of one name with no Free of it and no
\* out-of-band cgroup change in between, at most one succeeds, and once one
\* has succeeded no other is past the existence check and every further one
\* returns CellExists; the registry holds the one cell of that name.
C11_AtMostOneAllocateWins ==
    \A n \in Names :
        /\ won[n] <= 1
        /\ won[n] = 1 =>
              /\ cache[n].state = "Allocated"
              /\ \A t \in Tasks : ~(pc[t] = "spawn" /\ job[t].name = n)
              /\ \A spec \in Specs :
                    LET r == Cells_allocate_enter(cache, cgroup, n, spec)
                    IN  r.res = "CellExists" /\ r.cache = cache

C11_Witness ==
    \E n \in Names :
        /\ won[n] = 1
        /\ result.end = "allocate" /\ result.code = "CellExists"
        /\ \A m \in Names \ {n} : cache[m] = NoCell /\ m \notin cgroup

\* the step in which task t makes one dial attempt
DialStep(t) ==
    pc[t] = "dial" /\ (pc'[t] # "dial" \/ backoff'[t] # backoff[t])

\* the step in which task t makes one attempt of the nested RPC
RpcStep(t) ==
    pc[t] = "rpc" /\ (pc'[t] # "rpc" \/ backoff'[t] # backoff[t])

\* next_backoff of task t grants a delay and the task has slept it
SleptNext(t) ==
    \E r \in Rand :
        LET nb == NextBackoff(backoff[t], r)
        IN  nb.delay >= 0 /\ backoff'[t] = Slept(nb.b, nb.delay)

\* next_backoff of task t grants no delay
Exhausted(t) == \E r \in Rand : NextBackoff(backoff[t], r).delay < 0

\* C16: a dial attempt is followed by another one only after a
\* ConnectionError and only when the backoff grants a delay; any other dial
\* error ends the dispatch at once with that error (no further dial, no
\* nested RPC), and when the backoff grants no delay the last
\* ConnectionError is what the dispatch returns.
C16_DialRetriesOnlyConnectionError ==
    [][\A t \in Tasks : DialStep(t) =>
          CASE attempt'.code = "Ok" -> pc'[t] = "rpc"
            [] attempt'.code = "ConnectionError" ->
                 \/ pc'[t] = "dial" /\ SleptNext(t)
                 \/ /\ pc'[t] = "idle"
                    /\ Exhausted(t)
                    /\ result'.end = "dial_exhausted"
                    /\ result'.code = "ConnectionError"
            [] OTHER ->
                 /\ pc'[t] = "idle"
                 /\ result'.end = "dial_error"
                 /\ result'.code = attempt'.code]_vars

C16_Witness ==
    /\ result.end = "dial_exhausted"
    /\ result.retried
    /\ attempt.code = "ConnectionError"
    /\ \A t \in Tasks : pc[t] = "idle"

\* C17: an attempt of the nested RPC is followed by another one exactly
\* when it failed with code Unknown and message "transport error" and the
\* backoff grants a delay; every other error ends the dispatch with that
\* error unchanged, and a success after transient failures is all the
\* caller sees.
C17_RpcRetriesOnlyTransportError ==
    [][\A t \in Tasks : RpcStep(t) =>
          CASE attempt'.code = "Ok" ->
                 /\ pc'[t] = "idle"
                 /\ result'.end = "ok" /\ result'.code = "Ok"
            [] attempt' = Transient ->
                 \/ pc'[t] = "rpc" /\ SleptNext(t)
                 \/ /\ pc'[t] = "idle"
                    /\ Exhausted(t)
                    /\ result'.end = "rpc_exhausted"
                    /\ result'.code = attempt'.code
                    /\ result'.msg = attempt'.msg
            [] OTHER ->
                 /\ pc'[t] = "idle"
                 /\ result'.end = "rpc_permanent"
                 /\ result'.code = attempt'.code
                 /\ result'.msg = attempt'.msg]_vars

C17_Witness ==
    /\ result.end = "ok"
    /\ result.retried
    /\ attempt.code = "Ok"
    /\ \A t \in Tasks : pc[t] = "idle"

\* C18: the registry mutex is not held across the suspension points: no
\* task holds it while the nested agent of its local Allocate is being
\* spawned, nor during the dial attempts, backoff sleeps and the nested RPC
\* of its dispatch.
C18_RegistryMutexNotHeldAcrossSuspension ==
    \A t \in Tasks : pc[t] \in {"spawn", "dial", "rpc"} => lock # t

\* C19: no task holds the registry mutex and the Executables mutex at once:
\* a task inside a local Allocate or a nested dispatch holds the registry
\* mutex and not the Executables mutex, a task inside a local Stop holds the
\* Executables mutex and not the registry mutex, and no other task holds
\* either.
C19_OneMutexAtATime ==
    /\ \A t \in Tasks : ~(lock = t /\ xlock = t)
    /\ \A t \in Tasks :
          /\ pc[t] \in {"spawn", "dial", "rpc"} => lock = t /\ xlock # t
          /\ pc[t] = "stop" => xlock = t /\ lock # t
          /\ pc[t] = "idle" => lock # t /\ xlock # t

C19_Witness ==
    \E t, u \in Tasks :
        /\ t # u
        /\ pc[t] = "rpc" /\ lock = t
        /\ pc[u] = "stop" /\ xlock = u

\* the request has been served by the agent it arrived at
Served == route.at \in {"done", "forwarded"}

\* the number of segments of a path that parses
NumSegs(w) == Len(CellNamePathValidate(w).path)

\* the wire string behind its first separator (nothing when it has none)
StripHead(w) ==
    IF FirstSep(w) = 0 THEN <<>> ELSE SubSeq(w, FirstSep(w) + 1, Len(w))

RECURSIVE StripHeads(_, _)
StripHeads(w, k) == IF k = 0 THEN w ELSE StripHeads(StripHead(w), k - 1)

\* the wire string that puts the name `head` in front of the path `rest`
Prepend(head, rest) ==
    IF rest = <<>> THEN <<head>> ELSE <<head, Sep>> \o rest

\* C12 (P4): a request with path s1/s2/../sk is forwarded to the nested
\* agent of s1 with path exactly s2/../sk: every hop strips exactly one
\* head segment, so after h+1 hops the path is the original one without
\* its first h+1 segments, and the method is the one that was sent.
C12_ForwardsExactlyTheTail ==
    route.at = "forwarded" =>
        /\ route.rcvd.path = Prepend(route.head, route.fwd.path)
        /\ route.fwd.path = StripHead(route.rcvd.path)
        /\ route.fwd.path = StripHeads(route.orig.path, route.hops + 1)
        /\ route.fwd.method = route.orig.method

C12_Witness ==
    /\ route.at = "forwarded"
    /\ route.hops = 1
    /\ NumSegs(route.orig.path) = 3
    /\ route.orig.path[1] # route.orig.path[3]
    /\ route.fwd.path = <<route.orig.path[5]>>

\* C13: a valid Allocate or Free is handled by the receiving agent exactly
\* when its path is a single segment (no separator); with two or more
\* segments it is dispatched to the nested agent of the head segment, and
\* the receiving agent's registry is touched only by the lookup of the head
\* cell (no other entry, no cgroup and no executable changes).
C13_AllocateFreeLocalIffSingleSegment ==
    (Served /\ route.rcvd.method \in {"allocate", "free"}
            /\ Valid(route.rcvd)) =>
        /\ route.kind \in {"local", "nested"}
        /\ route.kind = "local" <=> ~Contains(route.rcvd.path, Sep)
        /\ route.kind = "local" =>
              route.rcvd.path = <<route.head>> /\ route.rest = <<>>
        /\ route.kind = "nested" =>
              /\ NumSegs(route.rcvd.path) >= 2
              /\ route.head = route.rcvd.path[1]
              /\ \A n \in Names \ {route.head} : cache[n] = last.pre[n]
              /\ cache[route.head] \in {last.pre[route.head], NoCell}
              /\ cgroup = last.prefs
              /\ execs = route.prex
              /\ "executables_lock" \notin route.effects

C13_Witness ==
    /\ route.at = "forwarded"
    /\ route.hops = 0
    /\ route.rcvd.method = "free"
    /\ route.kind = "nested"
    /\ Keys(cache) = Names

\* C14: a valid Start or Stop is executed by the Executables supervisor of
\* the receiving agent exactly when its path is empty; with a non-empty path
\* it is dispatched to the nested agent of the head segment, so the
\* executable addressed at s1/../sk is started or stopped only by the agent
\* reached after exactly k hops.
C14_StartStopLocalIffEmptyPath ==
    (Served /\ route.rcvd.method \in {"start", "stop"}
            /\ Valid(route.rcvd)) =>
        /\ route.kind \in {"local", "nested"}
        /\ route.kind = "local" <=> route.rcvd.path = <<>>
        /\ route.kind = "local" =>
              /\ route.hops = NumSegs(route.orig.path)
              /\ "executables_lock" \in route.effects
              /\ cache = last.pre /\ cgroup = last.prefs
        /\ route.kind = "nested" =>
              /\ route.head = route.rcvd.path[1]
              /\ route.hops < NumSegs(route.orig.path)
              /\ execs = route.prex
              /\ "executables_lock" \notin route.effects

C14_Witness ==
    /\ route.at = "done"
    /\ route.kind = "local"
    /\ route.rcvd.method = "start"
    /\ route.code = "Ok"
    /\ route.hops = 2
    /\ NumSegs(route.orig.path) = 2
    /\ execs # route.prex

\* C15: the routing recursion ends after a number of hops bounded by the
\* number of segments of the path: the hops made and the segments still on
\* the path add up to the segments of the original path, and a request that
\* does not validate makes no hop.
C15_HopsBoundedBySegments ==
    IF Valid(route.orig)
    THEN /\ route.hops <= NumSegs(route.orig.path)
         /\ route.hops + NumSegs(route.rcvd.path) = NumSegs(route.orig.path)
         /\ route.at = "forwarded" =>
               NumSegs(route.fwd.path) + 1 = NumSegs(route.rcvd.path)
    ELSE route.hops = 0 /\ route.at # "forwarded"

C15_Witness ==
    /\ route.at = "done"
    /\ route.kind = "local"
    /\ route.rcvd.method = "stop"
    /\ route.hops = 3
    /\ NumSegs(route.orig.path) = 3

\* C20: a request that fails validation is answered InvalidArgument before
\* either mutex is taken, whichever of the four methods it is and whichever
\* branch (local or nested) its path selects: the registry, the cgroup
\* filesystem and the Executables table are as before, and no dial and no
\* nested RPC is made.
C20_InvalidRequestHasNoEffect ==
    (Served /\ ~Valid(route.rcvd)) =>
        /\ route.at = "done"
        /\ route.kind = "invalid"
        /\ route.code = "InvalidArgument"
        /\ route.effects = {}
        /\ cache = last.pre
        /\ cgroup = last.prefs
        /\ execs = route.prex

C20_Witness ==
    /\ route.at = "done"
    /\ route.kind = "invalid"
    /\ route.code = "InvalidArgument"
    /\ route.rcvd.method = "allocate"
    /\ route.rcvd.body = "ok"
    /\ Contains(route.rcvd.path, Sep)
    /\ Keys(cache) # {}

\* C21: an Allocate whose cell is missing or whose cell name is empty, and a
\* Free whose cell_name is empty, are rejected by validation and reach
\* neither the local handler nor a nested agent; a Start or Stop with an
\* empty cell_name is accepted and handled by the receiving agent, one with
\* a non-empty path that parses is accepted and dispatched.
C21_EmptyPathContract ==
    Served =>
        LET q == route.rcvd IN
        /\ ( \/ q.method = "allocate" /\ (q.body = "missing" \/ q.path = <<>>)
             \/ q.method = "free" /\ q.path = <<>> ) =>
                /\ route.at = "done"
                /\ route.kind = "invalid"
                /\ route.code = "InvalidArgument"
                /\ route.effects = {}
        /\ (q.method \in {"start", "stop"} /\ q.body = "ok") =>
                /\ q.path = <<>> => route.kind = "local"
                /\ (q.path # <<>> /\ CellNamePathValidate(q.path).ok) =>
                      route.kind = "nested"

C21_Witness ==
    /\ route.at = "done"
    /\ route.kind = "invalid"
    /\ route.rcvd.method = "allocate"
    /\ route.rcvd.body = "ok"
    /\ route.rcvd.path = <<>>
    /\ Keys(cache) # {}

\* C22: broadcast_free and broadcast_kill call free / kill on every cell of
\* the registry; a cell whose call fails does not keep the call from the
\* other cells; exactly the cells whose call reported success are removed;
\* and free_all returns Ok whichever calls failed.
C22_BroadcastsSwallowFailures ==
    last.op = "free_all" =>
        LET pre == last.pre
            fs == last.prefs
            freed(n) == CellFree(pre[n], n, fs, n \notin last.arg).res = "Ok"
            F == broadcast_free(pre, fs, last.arg)
            K == broadcast_kill(F.cache, F.fs)
        IN  /\ last.res = "Ok"
            /\ \A n \in Names :
                  F.cache[n] = NoCell <=> (pre[n] = NoCell \/ freed(n))
            /\ \A n \in Keys(pre) :
                  /\ (freed(n) /\ pre[n].state = "Allocated") => n \notin F.fs
                  /\ ~freed(n) => F.cache[n] = pre[n]
            /\ \A n \in Keys(F.cache) :
                  /\ K.cache[n] = NoCell
                  /\ F.cache[n].state = "Allocated" => n \notin K.fs
            /\ cache = K.cache
            /\ cgroup = K.fs

C22_Witness ==
    /\ last.op = "free_all"
    /\ \E n, m \in Keys(last.pre) :
          /\ n < m
          /\ last.pre[n].state = "Allocated" /\ n \in last.arg
          /\ last.pre[m].state = "Allocated" /\ m \notin last.arg
          /\ m \in last.prefs /\ m \notin cgroup
          /\ cache[n] = NoCell

\* C23: whenever get, get_mut or free returns CellNotAllocated for n, the
\* registry no longer contains n; any other error returned by the closure
\* leaves the entry of n in place.
C23_NotAllocatedImpliesEviction ==
    last.op \in {"get", "free"} =>
        /\ last.res = "CellNotAllocated" => cache[last.name] = NoCell
        /\ (last.called /\ last.res \notin {"Ok", "CellNotAllocated"}) =>
              /\ cache[last.name] # NoCell
              /\ cache[last.name] = last.pre[last.name]

C23_Witness ==
    /\ last.op = "free"
    /\ last.res = "CellNotAllocated"
    /\ last.pre[last.name] # NoCell
    /\ last.name \in last.prefs
    /\ cache[last.name] = NoCell

C23_WitnessOtherError ==
    /\ last.op \in {"get", "free"}
    /\ last.res \in {"OtherError", "FreeFailed"}
    /\ cache[last.name] # NoCell

\* C29: if Cells.allocate(n, spec) returns Ok, the registry holds an entry
\* for n, the cgroup of n exists, the returned cell is the allocated cell of
\* n built from spec, and no other entry was added, removed or changed.
C29_AllocatePostcondition ==
    (last.op = "allocate" /\ last.res = "Ok") =>
        /\ cache[last.name] = [NewCell(last.arg) EXCEPT !.state = "Allocated"]
        /\ CgroupExists(cgroup, last.name)
        /\ \A m \in Names \ {last.name} : cache[m] = last.pre[m]
        /\ cgroup = last.prefs \cup {last.name}

C29_Witness ==
    /\ last.op = "allocate"
    /\ last.res = "Ok"
    /\ \E m \in Keys(cache) \ {last.name} : ~CgroupExists(cgroup, m)

\* C30: when the registry has an entry for n whose cgroup does not exist,
\* Cells.allocate(n, spec) does not fail with CellExists: the stale entry is
\* evicted, a fresh cell built from the new spec is inserted and allocated,
\* and on success the entry of n is the new cell.
C30_AllocateOverStaleEntry ==
    ( /\ last.op = "allocate"
      /\ last.pre[last.name] # NoCell
      /\ ~CgroupExists(last.prefs, last.name) ) =>
        /\ last.res # "CellExists"
        /\ last.called
        /\ cache[last.name] # NoCell
        /\ cache[last.name].spec = last.arg
        /\ last.res = "Ok" =>
              /\ cache[last.name].state = "Allocated"
              /\ CgroupExists(cgroup, last.name)
        /\ last.res # "Ok" => cache[last.name] = NewCell(last.arg)

C30_Witness ==
    /\ last.op = "allocate"
    /\ last.res = "Ok"
    /\ last.pre[last.name].state = "Allocated"
    /\ last.pre[last.name].spec # last.arg
    /\ ~CgroupExists(last.prefs, last.name)
    /\ cache[last.name].spec = last.arg

\* C25: when Cells.allocate(n) fails with a resource-construction error
\* after the cgroup was created, all partial work of the call is undone
\* before it returns: the cgroup of n does not exist and the registry holds
\* nothing the call put there.
C25_FailedAllocateUndoesAllWork ==
    (last.op = "allocate" /\ last.called /\ last.res = "AllocateFailed") =>
        /\ ~CgroupExists(cgroup, last.name)
        /\ cache[last.name] = NoCell

\* the part of C25 that holds: after the failed call the cgroup of n does not
\* exist, and an Allocate(n) issued next is rejected neither with CellExists
\* nor with CgroupIsNotACell
C25_NoRejectionByLeftovers ==
    (last.op = "allocate" /\ last.called /\ last.res = "AllocateFailed") =>
        /\ ~CgroupExists(cgroup, last.name)
        /\ \A spec \in Specs, ok \in BOOLEAN :
              Cells_allocate(cache, cgroup, last.name, spec, ok).res
                  \notin {"CellExists", "CgroupIsNotACell"}

C25_LeftoverReached ==
    /\ last.op = "allocate"
    /\ last.res = "AllocateFailed"
    /\ last.pre[last.name] = NoCell
    /\ cache[last.name] = NewCell(last.arg)

\* an agent has handled a request addressed below one of its cells
Routed == Served /\ route.kind = "nested"

\* C24 as stated: the registry of an agent that routes a nested request is
\* identical before and after the request, whether the dispatch succeeds or
\* fails.
C24_RoutingNeverMutatesRegistry ==
    Routed => (cache = last.pre /\ cgroup = last.prefs)

\* C24 amended: routing a nested request never touches the cgroups nor any
\* entry but that of the head cell; when the head cell is found the registry
\* is identical before and after, whether the nested agent is reached or
\* not; the entry of the head cell changes only by the eviction of the
\* reconciling read, and then the request fails with CgroupNotFound or
\* CellNotAllocated and is not forwarded.
C24_RoutingOnlyReconcilesHead ==
    Routed =>
        /\ cgroup = last.prefs
        /\ \A m \in Names \ {route.head} : cache[m] = last.pre[m]
        /\ (route.at = "forwarded" \/ route.code = "Undelivered") =>
              cache = last.pre
        /\ cache[route.head] # last.pre[route.head] =>
              /\ cache[route.head] = NoCell
              /\ ~CgroupExists(last.prefs, route.head)
                    \/ CellClientConfig(last.pre[route.head]) # "Ok"
              /\ route.at = "done"
              /\ route.code \in {"CgroupNotFound", "CellNotAllocated"}

C24_Witness ==
    /\ Routed
    /\ route.at = "done"
    /\ last.pre[route.head] # NoCell
    /\ cache[route.head] = NoCell
    /\ \E m \in Names \ {route.head} : cache[m] # NoCell

C24_WitnessForwarded ==
    /\ Routed
    /\ route.at = "forwarded"
    /\ cache = last.pre
    /\ \E m \in Keys(cache) : ~CgroupExists(cgroup, m)

\* C26: when an Allocate for a path of several segments is proxied and the
\* agent at the end of the path succeeds, that agent received a local
\* Allocate for the single last segment, and the response the outer caller
\* gets is exactly the response of that agent, whose cell_name is the last
\* segment.
C26_NestedSuccessVerbatim ==
    ( /\ route.at = "replied"
      /\ route.orig.method = "allocate"
      /\ route.kind = "local"
      /\ route.code = "Ok" ) =>
        LET child == route.orig.path[Len(route.orig.path)] IN
        /\ route.rcvd.path = <<child>>
        /\ route.head = child
        /\ route.reply = [code |-> "Ok", name |-> child]
        /\ route.reply = LocalResponse("allocate", Route(route.rcvd), "Ok")

C26_Witness ==
    /\ route.at = "replied"
    /\ route.orig.method = "allocate"
    /\ Len(route.orig.path) = 3
    /\ route.orig.path[1] # route.orig.path[3]
    /\ route.kind = "local"
    /\ route.code = "Ok"
    /\ route.reply.name = route.orig.path[3]

\* the system calls of a complete process isolation of the cell iso.name
FullIsolation ==
    <<Sys("mount_root_private", 0, TRUE), Sys("mount_proc", 0, TRUE),
      Sys("sethostname", iso.name, TRUE), Sys("setdomainname", iso.name, TRUE)>>

\* C27: with isolate_process = false, setup and isolate_process return Ok
\* without a mount, sethostname or setdomainname, whatever isolate_network
\* is; with isolate_network = false, isolate_network returns Ok without
\* effect; and isolate_network makes no mount and no hostname change for any
\* flags.
C27_IsolationNoOpWhenFlagFalse ==
    /\ ~iso.ctl.isolate_process =>
          /\ iso.calls = <<>>
          /\ iso.pc # "failed"
          /\ iso.res \in {"none", "Ok"}
    /\ \A c \in Ctls :
          /\ ~c.isolate_process =>
                /\ \A ok \in BOOLEAN :
                      Isolation_setup(iso.calls, c, ok)
                          = [calls |-> iso.calls, res |-> "Ok"]
                /\ \A fail \in ProcessFailures :
                      Isolation_isolate_process(iso.calls, iso.name, c, fail)
                          = [calls |-> iso.calls, res |-> "Ok"]
          /\ Isolation_isolate_network(iso.calls, c)
                = [calls |-> iso.calls, res |-> "Ok"]

C27_Witness ==
    /\ iso.pc = "serving"
    /\ ~iso.ctl.isolate_process
    /\ iso.ctl.isolate_network
    /\ iso.calls = <<>>
    /\ iso.res = "Ok"

\* C28: with isolate_process = true the nested agent makes, in this order,
\* the recursive-private rebind of /, the mount of a fresh /proc, sethostname
\* and setdomainname to the cell's name, and serves no RPC before all of
\* them succeeded; when a step fails the later steps are not made and the
\* failure is reported.
C28_NamespaceEntryOrdering ==
    iso.ctl.isolate_process =>
        /\ Len(iso.calls) <= Len(FullIsolation)
        /\ \A i \in 1..Len(iso.calls) :
              /\ iso.calls[i].call = FullIsolation[i].call
              /\ iso.calls[i].arg = FullIsolation[i].arg
              /\ i < Len(iso.calls) => iso.calls[i].ok
        /\ (\E i \in 1..Len(iso.calls) : ~iso.calls[i].ok)
              <=> (iso.pc = "failed" /\ iso.res = "IoError")
        /\ (iso.pc = "serving" \/ last.op # "none") =>
              iso.calls = FullIsolation

C28_Witness ==
    /\ iso.ctl.isolate_process
    /\ iso.calls = FullIsolation
    /\ last.op = "allocate"
    /\ last.res = "Ok"

C28_WitnessFailure ==
    /\ iso.ctl.isolate_process
    /\ iso.pc = "failed"
    /\ Len(iso.calls) = 3
    /\ ~iso.calls[3].ok
    /\ last.op = "none"

\* C31: when the cgroup of n exists and n is in the registry, Cells.free(n)
\* removes the entry if Cell.free succeeds; if Cell.free fails with an error
\* other than CellNotAllocated the error is returned and the entry of n
\* stays as it was, so that Free(n) can be tried again.
C31_FreeRemovesExactlyOnSuccess ==
    ( /\ last.op = "free"
      /\ CgroupExists(last.prefs, last.name)
      /\ last.pre[last.name] # NoCell ) =>
        /\ last.called
        /\ last.res = "Ok" => cache[last.name] = NoCell
        /\ cache[last.name] = NoCell => last.res \in {"Ok", "CellNotAllocated"}
        /\ last.res \notin {"Ok", "CellNotAllocated"} =>
              /\ last.res = "FreeFailed"
              /\ cache[last.name] = last.pre[last.name]
              /\ CgroupExists(cgroup, last.name)
              /\ LET again == Cells_free(cache, cgroup, last.name, TRUE)
                 IN  again.res = "Ok" /\ again.cache[last.name] = NoCell
        /\ \A m \in Names \ {last.name} : cache[m] = last.pre[m]

C31_Witness ==
    /\ last.op = "free"
    /\ last.res = "FreeFailed"
    /\ CgroupExists(last.prefs, last.name)
    /\ cache[last.name] = last.pre[last.name]
    /\ cache[last.name].state = "Allocated"

C31_WitnessSuccess ==
    /\ last.op = "free"
    /\ last.res = "Ok"
    /\ last.pre[last.name].state = "Allocated"
    /\ cache[last.name] = NoCell
    /\ Keys(cache) # {}

\* C32: for every wire request, the local allocate / free handler is reached
\* only with a validated path of exactly one segment, the local start / stop
\* handler only with a validated Empty path, and the nested branch only with
\* a validated non-empty path (and, for Allocate, a present cell): no
\* request makes an expect, assert or unreachable site panic.
C32_HandlerAssertionsHold ==
    route.rcvd.method \in Methods =>
        LET q == route.rcvd
            d == Route(q)
            v == CellNamePathValidate(q.path)
        IN  /\ d.kind \in {"invalid", "local", "nested"}
            /\ d.kind # "invalid" => Valid(q)
            /\ d.kind = "local" =>
                  /\ ~LocalHandlerPanics(q.method, d)
                  /\ q.method \in {"allocate", "free"} =>
                        /\ Len(v.path) = 1
                        /\ d.head = v.path[1]
                        /\ d.rest = <<>>
                  /\ q.method \in {"start", "stop"} => v.path = <<>>
            /\ d.kind = "nested" => ~NestedBranchPanics(q, v.path)

C32_Witness ==
    /\ route.at = "done"
    /\ route.kind = "local"
    /\ route.hops = 2
    /\ route.rcvd.method = "stop"
    /\ route.rcvd.path = <<>>
    /\ route.orig.path # <<>>
    /\ ~LocalHandlerPanics(route.rcvd.method, Route(route.rcvd))

\* the errors of the lookup of a head cell
LookupErrors ==
    {"CellNotFound", "CgroupNotFound", "CgroupIsNotACell", "CellNotAllocated"}

\* C33: when the lookup of client_config of the head cell fails (CellNotFound,
\* CgroupNotFound, CgroupIsNotACell or CellNotAllocated) the nested dispatch
\* returns that error without a dial attempt or a nested RPC: a dispatch
\* starts to dial only after a lookup that succeeded, a task that dials or
\* calls the nested agent has an allocated head cell in the registry, and a
\* dispatch that ends at the lookup returns the lookup's error with no
\* attempt made and the mutex released.
C33_NoDialWithoutManagedHead ==
    [][ \A t \in Tasks :
          /\ pc[t] \in {"dial", "rpc"} =>
                /\ lock = t
                /\ cache[job[t].name] # NoCell
                /\ CellClientConfig(cache[job[t].name]) = "Ok"
          /\ (pc[t] = "idle" /\ pc'[t] = "dial") =>
                /\ Cells_get(cache, cgroup, job'[t].name,
                             "client_config").res = "Ok"
                /\ attempt' = NoAttempt
          /\ (pc[t] \notin {"dial", "rpc"} /\ attempt' # NoAttempt) =>
                (attempt' = attempt \/ \E u \in Tasks : pc[u] \in {"dial", "rpc"})
          /\ (result' # result /\ result'.end = "get_error") =>
                /\ result'.code \in LookupErrors
                /\ \E n \in Names :
                      Cells_get(cache, cgroup, n, "client_config").res
                          = result'.code
                /\ attempt' = NoAttempt
                /\ ~result'.retried
                /\ \A u \in Tasks : pc'[u] \notin {"dial", "rpc"}
                /\ lock' = 0
      ]_vars

C33_Witness ==
    /\ result.end = "get_error"
    /\ result.code = "CgroupNotFound"
    /\ attempt = NoAttempt
    /\ lock = 0
    /\ \A t \in Tasks : pc[t] = "idle"
    /\ Keys(cache) # {}

\* C34: the rewrite of a forwarded request changes only its cell path: the
\* method and every other field (cpu, cpuset and isolation flags of an
\* Allocate, the executable of a Start, the executable_name of a Stop) are
\* those of the caller, at every agent on the way down; and every attempt of
\* one dispatch sends the same rewritten request.
C34_RewriteChangesOnlyPath ==
    /\ route.rcvd.method = route.orig.method
    /\ route.rcvd.body = route.orig.body
    /\ route.rcvd.fields = route.orig.fields
    /\ route.at = "forwarded" =>
          /\ route.fwd.method = route.rcvd.method
          /\ route.fwd.body = route.rcvd.body
          /\ route.fwd.fields = route.rcvd.fields
          /\ route.fwd = [route.rcvd EXCEPT !.path = into_string(route.rest)]
          /\ Len(route.sent) >= 1
          /\ \A i \in 1..Len(route.sent) : route.sent[i] = route.fwd

C34_Witness ==
    /\ route.at = "forwarded"
    /\ route.hops = 1
    /\ route.rcvd.method = "start"
    /\ route.rcvd.fields = 2
    /\ route.rcvd.path # route.orig.path
    /\ route.fwd.path # route.rcvd.path
    /\ route.fwd.fields = 2
    /\ Len(route.sent) = MaxTries

\* C36: in free_all, kill is applied only to the cells that the graceful
\* free did not remove: the cells whose free reported success leave the
\* registry in the step of broadcast_free, the registry is untouched and the
\* mutex stays with the task until broadcast_kill runs (no Allocate inserts
\* a cell in between), and broadcast_kill is applied to exactly the cells
\* the registry then holds.
C36_KillOnlyAfterFreeUnderOneHold ==
    [][ \A t \in Tasks :
          /\ (pc[t] = "idle" /\ pc'[t] = "kill") =>
                /\ lock = 0 /\ lock' = t
                /\ \E fails \in SUBSET Names :
                      LET b == do_broadcast(cache, cgroup, "free", fails) IN
                      /\ cache' = broadcast_free(cache, cgroup, fails).cache
                      /\ \A n \in b.names : cache'[n] = NoCell
                      /\ \A n \in Keys(cache) \ b.names : cache'[n] # NoCell
          /\ pc[t] = "kill" => lock = t
          /\ (pc[t] = "kill" /\ pc'[t] = "kill") =>
                (cache' = cache /\ lock' = t)
          /\ (pc[t] = "kill" /\ pc'[t] # "kill") =>
                /\ cache' = broadcast_kill(cache, cgroup).cache
                /\ do_broadcast(cache, cgroup, "kill", {}).names = Keys(cache)
                /\ Keys(cache') = {}
                /\ result' = Local("free_all", "Ok")
                /\ lock' = 0
      ]_vars

\* C36 on the registry alone, free_all as one call: the cells killed are
\* those left by broadcast_free, none of them was freed with success
C36_KillOnlySurvivors ==
    last.op = "free_all" =>
        LET F == do_broadcast(last.pre, last.prefs, "free", last.arg)
            left == Keys(broadcast_free(last.pre, last.prefs, last.arg).cache)
        IN  /\ left = Keys(last.pre) \ F.names
            /\ left \cap F.names = {}

C36_Witness ==
    \E t, u \in Tasks :
        /\ t # u
        /\ pc[t] = "kill"
        /\ lock = t
        /\ pc[u] = "idle"
        /\ Keys(cache) # {}
        /\ \E n \in Names : cache[n] = NoCell /\ ~CgroupExists(cgroup, n)

\* C35: if every dial attempt and every attempt of the nested RPC returns, a
\* task that has acquired the registry mutex (local Allocate, free_all, a
\* nested dispatch on any path) releases it, and a request that waits for
\* the mutex on the same agent, free_all included, eventually acquires it.
C35_MutexEventuallyReleased ==
    \A t \in Tasks :
        /\ (lock = t) ~> (lock = 0)
        /\ []<>(pc[t] = "kill")

\* no state in which the mutex is held is stuck: its holder can step
C35_HolderCanStep ==
    \A t \in Tasks : lock = t => pc[t] \in {"spawn", "kill", "dial", "rpc"}

C35_Witness ==
    \E t, u \in Tasks :
        /\ t # u
        /\ lock = t
        /\ pc[t] = "rpc"
        /\ backoff[t].elapsed > 0
        /\ pc[u] = "idle"
        /\ result.end = "rpc_exhausted"

====
